---- MODULE Spec2Model ----
(***************************************************************************)
(* Fiscal receipt engine: per-device counter and hash chain, immediate     *)
(* submission to the tax-authority gateway, offline queue and replay.      *)
(***************************************************************************)
EXTENDS Integers, Sequences, FiniteSets, TLC

\* ------------------------------------------------------------- bounds
NumWorkers == 2
MaxReceipts == 3
MaxFaults == 2
MaxDays == 2
MaxDocs == 2
MaxLines == 2

\* Counter, chain, queue and replay state is device-scoped and devices share
\* nothing but the connection: the model follows one device.
Devices == {1}
\* the fiscal-day life cycle is followed for a second device as well
DayDevices == {1, 2}
Workers == 1..NumWorkers
\* two users enter and submit documents at the same time
Users == {1, 2}
NoWorker == 0
NoHash == 0
NoReceipt == 0

VARIABLES
  lock,          \* device row lock holder (select_for_update), NoWorker when free
  lastAllocated, \* FiscalDevice: last allocated receipt number
  counter,       \* FiscalDevice: durable last confirmed receipt number
  receipts,      \* receipt store, in creation order; the index is the receipt id
  queue,         \* per device: the offline queue, in append order
  pc,            \* per worker: position in the creation flow
  local,         \* per worker: device, allocated number, previous hash, receipt id
  online,        \* connectivity to the gateway
  wire,          \* per device: the submission in flight
  gwLog,         \* per device: the receipt numbers the gateway accepted, in order
  sent,          \* per device: the requests handed to the gateway client so far
  halted,        \* per device: replay found an ordering or chain error
  fatalError,    \* per device: the reported fatal error
  outages,       \* number of connectivity losses so far
  rejects,       \* number of rejected or unverifiable responses so far
  crashes,       \* number of worker crashes so far
  fiscalDay,     \* per device: day number and status of its current fiscal day
  docs,          \* document store: the fiscal documents, in creation order
  draft,         \* per user: the document being entered
  outcome,       \* per user: the result of the last operation
  request,       \* receipt builder: document type, lines and total from the caller
  built,         \* receipt builder: the built lines, tax buckets and total
  items,         \* invoice form: the item rows
  shown,         \* invoice form: the totals panel as rendered
  candidate,     \* signing: the invoice handed to the receipt builder
  payload,       \* signing: the receipt as built, validated and signed
  signedBefore,  \* signing: the receipt as signed before its buyer data was replaced
  verdict,       \* signing: the stage reached, or the validation error raised
  cert,          \* certificate: time left on the device certificate, with the server's count
  certViews,     \* certificate: the indicator as the widget, list and detail page render it
  deviceId,      \* invoice form: the selected device, NoDevice when none
  issueTaxInvoice, \* invoice form: the tax invoice checkbox
  customerName,  \* invoice form: buyer name
  customerTin,   \* invoice form: buyer TIN
  payments,      \* invoice form: the payment amounts, in cents
  submitting,    \* invoice form: a submission is pending
  progress,      \* invoice form: the progress shown, NoProgress when null
  result,        \* invoice form: the result shown, NoResult when null
  posted,        \* invoice form: the payload of the last POST /api/invoices/
  inflight,      \* invoice form: the POSTs that have not settled
  progressWs,    \* invoice form: the progress socket, "open" or "none"
  selectedDevice, \* dashboard: the device selected in the top bar, NoDevice when none
  token,         \* dashboard: the JWT of the session, NoToken when none
  sockets,       \* dashboard: the WebSockets created so far, in creation order
  metrics,       \* dashboard: the metrics shown
  activity,      \* dashboard: the activity feed, newest first
  receiptProgress, \* dashboard: the receipt progress shown
  fetching       \* dashboard: the selections whose metrics request is in flight

\* the variables of the components outside the engine
docVars == <<docs, draft, outcome>>
buildVars == <<request, built>>
totalsVars == <<items, shown>>
signVars == <<candidate, payload, signedBefore, verdict>>
certVars == <<cert, certViews>>
buyerVars == <<issueTaxInvoice, customerName, customerTin>>
postVars == <<submitting, progress, result, posted, inflight, progressWs>>
formVars == <<deviceId, buyerVars, payments, postVars>>
dashVars == <<selectedDevice, token, sockets, metrics, activity, receiptProgress, fetching>>
viewVars == <<certVars, formVars, dashVars>>
frontVars == <<totalsVars, signVars, viewVars>>
outsideEngine == <<docVars, buildVars, frontVars>>

vars == <<lock, lastAllocated, counter, receipts, queue, pc, local, online, wire,
          gwLog, sent, halted, fatalError, outages, rejects, crashes, fiscalDay,
          outsideEngine>>

\* ------------------------------------------------------------- helpers
Range(s) == {s[i] : i \in 1..Len(s)}

\* Canonical Builder (fiscal fields of this model: device id, global number,
\* previous hash); the previous-hash segment is omitted when absent.
Canonical(d, n, prev) == <<d, n>> \o (IF prev = NoHash THEN <<>> ELSE <<prev>>)

RECURSIVE HashFold(_, _)
HashFold(c, k) == IF k = 0 THEN 7 ELSE (HashFold(c, k - 1) * 31 + c[k]) % 1000003

\* Hash/Signature Service: one-way hash over the canonical string (never NoHash).
Hash(c) == HashFold(c, Len(c)) + 1

ReceiptsOf(d) == {i \in 1..Len(receipts) : receipts[i].dev = d}

LastHashAcrossDays(d) ==
  LET prior == {i \in ReceiptsOf(d) : receipts[i].no = lastAllocated[d]}
  IN  IF prior = {} THEN NoHash ELSE receipts[CHOOSE i \in prior : TRUE].hash
\* Hash of the immediate predecessor: the device's most recently allocated
\* receipt, when it belongs to the current fiscal day; absent for the first
\* receipt of a fiscal day.
LastHash(d) ==
  LET prior == {i \in ReceiptsOf(d) : /\ receipts[i].no = lastAllocated[d]
                                      /\ receipts[i].day = fiscalDay[d].no}
  IN  IF prior = {} THEN NoHash ELSE receipts[CHOOSE i \in prior : TRUE].hash

\* Hash of the last receipt the gateway confirmed.
ConfirmedHash(d) ==
  LET conf == {i \in ReceiptsOf(d) :
                 receipts[i].no = counter[d] /\ receipts[i].status = "SUBMITTED"}
  IN  IF conf = {} THEN NoHash ELSE receipts[CHOOSE i \in conf : TRUE].hash

\* Fiscal day of the receipt of a device with a given number (0 when none).
DayOf(d, n) ==
  LET at == {i \in ReceiptsOf(d) : receipts[i].no = n}
  IN  IF at = {} THEN 0 ELSE receipts[CHOOSE i \in at : TRUE].day

\* The previous hash expected on receipt n: the last confirmed receipt's hash
\* when both are of one fiscal day, none when n opens a fiscal day.
ChainHead(d, n) == IF DayOf(d, n) = DayOf(d, counter[d]) THEN ConfirmedHash(d) ELSE NoHash

LockFreeUnlocked(d) == TRUE
\* select_for_update(): the device row is taken only when no one holds it.
LockFree(d) == lock[d] = NoWorker

\* ------------------------------------------------------------- state
NoLocal == [dev |-> 0, no |-> 0, prev |-> NoHash, rid |-> NoReceipt]
NoMsg == [rid |-> NoReceipt, no |-> 0, prev |-> NoHash, hash |-> NoHash, stage |-> "none"]

NoDraft == [supplier |-> 0, extNo |-> 0, type |-> "none", ref |-> 0]
NoRequest == [type |-> "none", lines |-> <<>>, total |-> 0]
NoBuilt == [lines |-> <<>>, taxes |-> <<>>, total |-> 0]

\* document store and users before any document was entered
DocInit ==
  /\ docs = <<>>
  /\ draft = [u \in Users |-> NoDraft]
  /\ outcome = [u \in Users |-> "none"]

\* the receipt builder before any request
BuildIdle ==
  /\ request = NoRequest
  /\ built = NoBuilt

EngineInit ==
  /\ lock = [d \in Devices |-> NoWorker]
  /\ lastAllocated = [d \in Devices |-> 0]
  /\ counter = [d \in Devices |-> 0]
  /\ receipts = <<>>
  /\ queue = [d \in Devices |-> <<>>]
  /\ pc = [w \in Workers |-> "idle"]
  /\ local = [w \in Workers |-> NoLocal]
  /\ online = TRUE
  /\ wire = [d \in Devices |-> NoMsg]
  /\ gwLog = [d \in Devices |-> <<>>]
  /\ sent = [d \in Devices |-> {}]
  /\ halted = [d \in Devices |-> FALSE]
  /\ fatalError = [d \in Devices |-> "none"]
  /\ outages = 0
  /\ rejects = 0
  /\ crashes = 0
  /\ fiscalDay = [d \in DayDevices |-> [no |-> 1, status |-> "OPEN"]]

\* Invoice form. Money is in cents, quantities are in hundredths, tax percents
\* in tenths of a percent (15.5 is 155); a tax_id of NoTax is an empty selection.
NoTax == 0
INVOICE_TAXES ==
  <<[taxID |-> 1, taxPercent |-> 0, taxCode |-> "1"],
    [taxID |-> 2, taxPercent |-> 0, taxCode |-> "2"],
    [taxID |-> 517, taxPercent |-> 155, taxCode |-> "517"]>>

\* the row that addItem and the default-item effect create, from the first tax
\* on offer
NewItem(taxes) ==
  [description |-> "", quantity |-> 100, unit_price |-> 0,
   tax_id |-> IF Len(taxes) > 0 THEN taxes[1].taxID ELSE NoTax,
   tax_percent |-> IF Len(taxes) > 0 THEN taxes[1].taxPercent ELSE 0,
   tax_code |-> IF Len(taxes) > 0 THEN taxes[1].taxCode ELSE "VAT"]

NoShown == [subtotal |-> 0, taxes |-> <<>>, totalTax |-> 0, grandTotal |-> 0, rendered |-> FALSE]

\* the form after it mounted: the default-item effect has put one row in
TotalsIdle ==
  /\ items = <<NewItem(INVOICE_TAXES)>>
  /\ shown = NoShown

NoBuyer == 0
NoCandidate ==
  [vat |-> TRUE, issue_tax_invoice |-> FALSE, buyer_data |-> NoBuyer, lines |-> <<>>,
   total |-> 0]
NoPayload ==
  [receiptType |-> "none", buyerData |-> NoBuyer, receiptTaxes |-> <<>>, receiptTotal |-> 0,
   canonical |-> <<>>, hash |-> NoHash, signature |-> NoHash]

\* the receipt builder before any invoice was handed to it
SignIdle ==
  /\ candidate = NoCandidate
  /\ payload = NoPayload
  /\ signedBefore = NoPayload
  /\ verdict = "idle"

\* no view has rendered the certificate indicator
NoViews == [widget |-> "none", list |-> "none", detail |-> "none"]
NoCert == [present |-> FALSE, remaining |-> 0]
CertIdle ==
  /\ cert = NoCert
  /\ certViews = NoViews

\* the invoice form as it mounts
NoDevice == 0
NoProgress == [percent |-> 0, stage |-> "null"]
NoResult == [kind |-> "null", error |-> ""]
NoPost ==
  [device_id |-> NoDevice, issue_tax_invoice |-> FALSE, customer_name |-> "",
   customer_tin |-> "", items |-> <<>>, payments |-> <<>>]
FormIdle ==
  /\ deviceId = NoDevice
  /\ issueTaxInvoice = TRUE
  /\ customerName = ""
  /\ customerTin = ""
  /\ payments = <<0>>
  /\ submitting = FALSE
  /\ progress = NoProgress
  /\ result = NoResult
  /\ posted = NoPost
  /\ inflight = 0
  /\ progressWs = "none"

\* the dashboard as it mounts: a socket for no device, and the metrics asked for
NoToken == 0
NoMetrics == [device |-> NoDevice, via |-> "null"]
NoReceiptProgress == [device |-> NoDevice, type |-> "null"]
createDashboardWebSocket(dev, tok) ==
  [deviceId |-> dev, token |-> tok, open |-> TRUE]
DashIdle ==
  /\ selectedDevice = NoDevice
  /\ token = NoToken
  /\ sockets = <<createDashboardWebSocket(NoDevice, NoToken)>>
  /\ metrics = NoMetrics
  /\ activity = <<>>
  /\ receiptProgress = NoReceiptProgress
  /\ fetching = {NoDevice}

ViewIdle == CertIdle /\ FormIdle /\ DashIdle

FrontInit == TotalsIdle /\ SignIdle /\ ViewIdle

\* engine, document store and receipt builder before any operation
BackInit == EngineInit /\ DocInit /\ BuildIdle

Init == BackInit /\ FrontInit

\* ------------------------------------------------------------- creation flow
InProgress == {w \in Workers : pc[w] \in {"waiting", "allocated"}}

\* a caller starts the creation of a receipt for a device (step 1)
StartCreate(w, d) ==
  /\ pc[w] \in {"idle", "rejected"}
  /\ Len(receipts) + Cardinality(InProgress) < MaxReceipts
  /\ pc' = [pc EXCEPT ![w] = "waiting"]
  /\ local' = [local EXCEPT ![w] = [NoLocal EXCEPT !.dev = d]]
  /\ UNCHANGED <<fiscalDay, outsideEngine, lock, lastAllocated, counter, receipts, queue, online, wire, gwLog,
                 sent, halted, fatalError, outages, rejects, crashes>>

DayOpenUnchecked(d) == TRUE
\* fiscal state is validated before a receipt is created: the day must be OPEN
DayOpen(d) == fiscalDay[d].status = "OPEN"

\* allocateNext(device) -> (globalNumber, previousHash): the device row is fetched
\* under its lock (the call blocks while another holds it), and the next number
\* and the predecessor's hash are read from it
AllocateNext(w) ==
  /\ pc[w] = "waiting"
  /\ LET d == local[w].dev
     IN  /\ LockFree(d)
         /\ DayOpen(d)
         /\ lock' = [lock EXCEPT ![d] = w]
         /\ local' = [local EXCEPT ![w].no = lastAllocated[d] + 1,
                                    ![w].prev = LastHash(d)]
  /\ pc' = [pc EXCEPT ![w] = "allocated"]
  /\ UNCHANGED <<fiscalDay, outsideEngine, lastAllocated, counter, receipts, queue, online, wire, gwLog, sent,
                 halted, fatalError, outages, rejects, crashes>>

\* the creation attempt is rejected: the fiscal day of the device is not OPEN
RejectCreate(w) ==
  /\ pc[w] = "waiting"
  /\ LockFree(local[w].dev)
  /\ ~DayOpen(local[w].dev)
  /\ pc' = [pc EXCEPT ![w] = "rejected"]
  /\ local' = [local EXCEPT ![w] = NoLocal]
  /\ UNCHANGED <<fiscalDay, outsideEngine, lock, lastAllocated, counter, receipts, queue,
                 online, wire, gwLog, sent, halted, fatalError, outages, rejects, crashes>>

CounterAfterBuildAdvanced(d, n) == n
\* the durable last-receipt counter is not touched when a number is allocated
CounterAfterBuild(d, n) == counter[d]

\* canonical string, hash, signature, local store (status BUILT); the allocated
\* number is persisted on the device row
BuildAndStore(w) ==
  /\ pc[w] = "allocated"
  /\ LET d == local[w].dev
         n == local[w].no
         r == [dev |-> d, no |-> n, day |-> fiscalDay[d].no, prev |-> local[w].prev,
               canonical |-> Canonical(d, n, local[w].prev),
               hash |-> Hash(Canonical(d, n, local[w].prev)),
               status |-> "BUILT"]
     IN  /\ receipts' = Append(receipts, r)
         /\ lastAllocated' = [lastAllocated EXCEPT ![d] = n]
         /\ counter' = [counter EXCEPT ![d] = CounterAfterBuild(d, n)]
         /\ local' = [local EXCEPT ![w].rid = Len(receipts) + 1]
  /\ pc' = [pc EXCEPT ![w] = "built"]
  /\ UNCHANGED <<fiscalDay, outsideEngine, lock, queue, online, wire, gwLog, sent, halted, fatalError,
                 outages, rejects, crashes>>

OrderingOkUnchecked(d, n, prev) == TRUE
\* sequence and chain check against the last confirmed receipt
OrderingOk(d, n, prev) == n = counter[d] + 1 /\ prev = ChainHead(d, n)

CanSubmitNowUnordered(d, rid) == online /\ ~halted[d] /\ wire[d] = NoMsg
CanSubmitNowParallel(d, rid) == online /\ ~halted[d]
\* an immediate submission needs connectivity, a device that is not halted, no
\* submission of the device in flight and every earlier receipt confirmed
CanSubmitNow(d, rid) ==
  /\ online
  /\ ~halted[d]
  /\ wire[d] = NoMsg
  /\ OrderingOk(d, receipts[rid].no, receipts[rid].prev)

Request(rid) == [rid |-> rid, no |-> receipts[rid].no, prev |-> receipts[rid].prev,
                 hash |-> receipts[rid].hash, stage |-> "request"]

NewEntry(rid) ==
  [key |-> receipts[rid].no,
   receipt |-> [rid |-> rid, dev |-> receipts[rid].dev, no |-> receipts[rid].no,
                prev |-> receipts[rid].prev, hash |-> receipts[rid].hash],
   state |-> "QUEUED", attempts |-> 0, lastError |-> "none"]

\* steps 12-13: the receipt is sent to the gateway at once
SubmitNow(w) ==
  /\ pc[w] = "built"
  /\ LET d == local[w].dev
         rid == local[w].rid
     IN  /\ CanSubmitNow(d, rid)
         /\ receipts' = [receipts EXCEPT ![rid].status = "SUBMITTING"]
         /\ wire' = [wire EXCEPT ![d] = Request(rid)]
         /\ sent' = [sent EXCEPT ![d] = @ \cup {Request(rid)}]
         /\ lock' = [lock EXCEPT ![d] = IF @ = w THEN NoWorker ELSE @]
  /\ pc' = [pc EXCEPT ![w] = "idle"]
  /\ local' = [local EXCEPT ![w] = NoLocal]
  /\ UNCHANGED <<fiscalDay, outsideEngine, lastAllocated, counter, queue, online, gwLog, halted, fatalError,
                 outages, rejects, crashes>>

\* the receipt could not be sent: it is appended to the offline queue
Enqueue(w) ==
  /\ pc[w] = "built"
  /\ LET d == local[w].dev
         rid == local[w].rid
     IN  /\ ~CanSubmitNow(d, rid)
         /\ receipts' = [receipts EXCEPT ![rid].status = "QUEUED"]
         /\ queue' = [queue EXCEPT ![d] = Append(@, NewEntry(rid))]
         /\ lock' = [lock EXCEPT ![d] = IF @ = w THEN NoWorker ELSE @]
  /\ pc' = [pc EXCEPT ![w] = "idle"]
  /\ local' = [local EXCEPT ![w] = NoLocal]
  /\ UNCHANGED <<fiscalDay, outsideEngine, lastAllocated, counter, online, wire, gwLog, sent, halted,
                 fatalError, outages, rejects, crashes>>

\* the worker process dies after the receipt was stored and before it was
\* dispatched: the row lock is released, the receipt stays BUILT
Crash(w) ==
  /\ pc[w] = "built"
  /\ outages + rejects + crashes < MaxFaults
  /\ crashes' = crashes + 1
  /\ lock' = [lock EXCEPT ![local[w].dev] = IF @ = w THEN NoWorker ELSE @]
  /\ pc' = [pc EXCEPT ![w] = "idle"]
  /\ local' = [local EXCEPT ![w] = NoLocal]
  /\ UNCHANGED <<fiscalDay, outsideEngine, lastAllocated, counter, receipts, queue, online, wire, gwLog, sent,
                 halted, fatalError, outages, rejects>>

\* ------------------------------------------------------------- queue engine
EntryOf(d, rid) == {i \in 1..Len(queue[d]) : queue[d][i].receipt.rid = rid}

QueuedIdx(d) == {i \in 1..Len(queue[d]) : queue[d][i].state = "QUEUED"}

\* load the QUEUED entries of the device in ascending order of the ordering key
NextQueued(d) ==
  CHOOSE i \in QueuedIdx(d) :
    \A j \in QueuedIdx(d) :
      queue[d][i].key < queue[d][j].key \/ (queue[d][i].key = queue[d][j].key /\ i <= j)

HasFailed(d) == \E i \in ReceiptsOf(d) : receipts[i].status = "FAILED"

ReplayReadyOnReconnectOnly(d) ==
  online /\ ~halted[d] /\ wire[d] = NoMsg /\ ~HasFailed(d) /\ QueuedIdx(d) # {} /\ outages > 0
\* replay runs on a connected device that is not halted, has nothing in flight
\* and has no entry waiting for manual review
ReplayReady(d) ==
  /\ online
  /\ ~halted[d]
  /\ wire[d] = NoMsg
  /\ ~HasFailed(d)
  /\ QueuedIdx(d) # {}

\* the queue entry of a receipt (if it has one) changes state
SetState(q, rid, st) ==
  [i \in 1..Len(q) |-> IF q[i].receipt.rid = rid THEN [q[i] EXCEPT !.state = st] ELSE q[i]]

\* one more attempt is counted on the queue entry of a receipt
CountAttempt(q, rid) ==
  [i \in 1..Len(q) |->
     IF q[i].receipt.rid = rid THEN [q[i] EXCEPT !.attempts = @ + 1] ELSE q[i]]

\* the last error is recorded on the queue entry of a receipt
SetError(q, rid, err) ==
  [i \in 1..Len(q) |->
     IF q[i].receipt.rid = rid THEN [q[i] EXCEPT !.lastError = err] ELSE q[i]]

\* the receipt was handed to the gateway client before
WasSent(d, rid) == \E m \in sent[d] : m.rid = rid

\* a receipt that was sent before is never retried blindly: its retry starts
\* with the status query
RetryStage(d, rid) == IF WasSent(d, rid) THEN "unknown" ELSE "request"

\* submit the next queued entry, one at a time
ReplayNext(d) ==
  /\ ReplayReady(d)
  /\ LET i == NextQueued(d)
         e == queue[d][i]
         rid == e.receipt.rid
         msg == [rid |-> rid, no |-> e.receipt.no, prev |-> e.receipt.prev,
                 hash |-> e.receipt.hash, stage |-> RetryStage(d, rid)]
     IN  /\ OrderingOk(d, e.key, e.receipt.prev)
         /\ queue' = [queue EXCEPT ![d] =
                        IF msg.stage = "request"
                        THEN CountAttempt(SetState(@, rid, "SUBMITTING"), rid)
                        ELSE SetState(@, rid, "SUBMITTING")]
         /\ receipts' = [receipts EXCEPT ![rid].status = "SUBMITTING"]
         /\ wire' = [wire EXCEPT ![d] = msg]
         /\ sent' = [sent EXCEPT ![d] = IF msg.stage = "request" THEN @ \cup {msg} ELSE @]
  /\ UNCHANGED <<fiscalDay, outsideEngine, lock, lastAllocated, counter, pc, local, online, gwLog, halted,
                 fatalError, outages, rejects, crashes>>

QueueAfterHaltSkipped(q, i) == [q EXCEPT ![i].state = "FAILED"]
\* the offending entry is left as it is: not skipped, not corrected
QueueAfterHalt(q, i) == q

\* the first ordering inconsistency halts the replay of the whole device
ReplayHalt(d) ==
  /\ ReplayReady(d)
  /\ LET e == queue[d][NextQueued(d)]
     IN  ~OrderingOk(d, e.key, e.receipt.prev)
  /\ halted' = [halted EXCEPT ![d] = TRUE]
  /\ fatalError' = [fatalError EXCEPT ![d] = "ORDERING"]
  /\ queue' = [queue EXCEPT ![d] = QueueAfterHalt(@, NextQueued(d))]
  /\ UNCHANGED <<fiscalDay, outsideEngine, lock, lastAllocated, counter, receipts, pc, local, online,
                 wire, gwLog, sent, outages, rejects, crashes>>

\* ------------------------------------------------------------- gateway
GatewayAccept(d) ==
  /\ online
  /\ wire[d].stage = "request"
  /\ gwLog' = [gwLog EXCEPT ![d] = Append(@, wire[d].no)]
  /\ wire' = [wire EXCEPT ![d].stage = "accepted"]
  /\ UNCHANGED <<fiscalDay, outsideEngine, lock, lastAllocated, counter, receipts, queue, pc, local, online,
                 sent, halted, fatalError, outages, rejects, crashes>>

\* 422: the gateway rejects the payload
GatewayReject(d) ==
  /\ online
  /\ wire[d].stage = "request"
  /\ outages + rejects + crashes < MaxFaults
  /\ rejects' = rejects + 1
  /\ wire' = [wire EXCEPT ![d].stage = "rejected"]
  /\ UNCHANGED <<fiscalDay, outsideEngine, lock, lastAllocated, counter, receipts, queue, pc, local, online,
                 gwLog, sent, halted, fatalError, outages, crashes>>

\* the gateway records the receipt, but its 200 response carries no valid
\* counter-signature
GatewayAcceptUnsigned(d) ==
  /\ online
  /\ wire[d].stage = "request"
  /\ outages + rejects + crashes < MaxFaults
  /\ rejects' = rejects + 1
  /\ gwLog' = [gwLog EXCEPT ![d] = Append(@, wire[d].no)]
  /\ wire' = [wire EXCEPT ![d].stage = "unsigned"]
  /\ UNCHANGED <<fiscalDay, outsideEngine, lock, lastAllocated, counter, receipts, queue, pc, local, online,
                 sent, halted, fatalError, outages, crashes>>

MarkSubmittedAndDrop(q, d, rid) == SelectSeq(q, LAMBDA e : e.receipt.rid # rid)
\* the queue entry of a confirmed receipt is transitioned, never removed
MarkSubmitted(q, d, rid) == SetState(q, rid, "SUBMITTED")

\* the gateway confirmed the receipt: SUBMITTED, and the durable counter advances
Confirm(d) ==
  /\ receipts' = [receipts EXCEPT ![wire[d].rid].status = "SUBMITTED"]
  /\ queue' = [queue EXCEPT ![d] = MarkSubmitted(@, d, wire[d].rid)]
  /\ counter' = [counter EXCEPT ![d] = wire[d].no]
  /\ wire' = [wire EXCEPT ![d] = NoMsg]
  /\ UNCHANGED <<fiscalDay, outsideEngine, lock, lastAllocated, pc, local, online, gwLog, sent, halted,
                 fatalError, outages, rejects, crashes>>

ConfirmSuccess(d) ==
  /\ online
  /\ wire[d].stage = "accepted"
  /\ Confirm(d)

RejectedStateRequeued == "QUEUED"
\* a rejected receipt is flagged for manual review
RejectedState == "FAILED"

RejectFailed(d) ==
  /\ online
  /\ wire[d].stage = "rejected"
  /\ receipts' = [receipts EXCEPT ![wire[d].rid].status = RejectedState]
  /\ queue' = [queue EXCEPT ![d] = SetError(SetState(@, wire[d].rid, RejectedState), wire[d].rid, "422")]
  /\ wire' = [wire EXCEPT ![d] = NoMsg]
  /\ UNCHANGED <<fiscalDay, outsideEngine, lock, lastAllocated, counter, pc, local, online, gwLog, sent, halted,
                 fatalError, outages, rejects, crashes>>

UnsignedStateTrusted == "SUBMITTED"
\* verify(gatewayResponse) failed: a full submission failure
UnsignedState == "FAILED"

\* the counter advances with a receipt only when it became SUBMITTED
CounterAfterResponse(d, st) == IF st = "SUBMITTED" THEN wire[d].no ELSE counter[d]

\* a response without a valid counter-signature, whatever its HTTP status
VerifyFailed(d) ==
  /\ online
  /\ wire[d].stage = "unsigned"
  /\ receipts' = [receipts EXCEPT ![wire[d].rid].status = UnsignedState]
  /\ queue' = [queue EXCEPT ![d] =
                 SetError(SetState(@, wire[d].rid, UnsignedState), wire[d].rid, "signature")]
  /\ counter' = [counter EXCEPT ![d] = CounterAfterResponse(d, UnsignedState)]
  /\ wire' = [wire EXCEPT ![d] = NoMsg]
  /\ UNCHANGED <<fiscalDay, outsideEngine, lock, lastAllocated, pc, local, online, gwLog, sent, halted,
                 fatalError, outages, rejects, crashes>>

UnknownOutcomeStateAssumedFailed == "FAILED"
\* a submission in SUBMITTING state is not cancelled while its outcome is unknown
UnknownOutcomeState == "SUBMITTING"

\* the connection dropped while the submission was in flight: outcome unknown,
\* the receipt stays SUBMITTING
Timeout(d) ==
  /\ ~online
  /\ wire[d].stage \in {"request", "accepted", "rejected", "unsigned"}
  /\ wire' = [wire EXCEPT ![d].stage = "unknown"]
  /\ receipts' = [receipts EXCEPT ![wire[d].rid].status = UnknownOutcomeState]
  /\ queue' = [queue EXCEPT ![d] =
                 SetError(SetState(@, wire[d].rid, UnknownOutcomeState), wire[d].rid, "timeout")]
  /\ UNCHANGED <<fiscalDay, outsideEngine, lock, lastAllocated, counter, pc, local, online, gwLog,
                 sent, halted, fatalError, outages, rejects, crashes>>

GatewayHasAssumedNot(d, n) == FALSE
\* the gateway's authoritative status of a receipt number
GatewayHas(d, n) == n \in Range(gwLog[d])

\* status query: the gateway holds the receipt
ResolveReceived(d) ==
  /\ online
  /\ wire[d].stage = "unknown"
  /\ GatewayHas(d, wire[d].no)
  /\ Confirm(d)

RetryAllocationFresh(d, rid) == [no |-> lastAllocated[d] + 1, prev |-> LastHash(d)]
\* a retry reuses the number and previous hash allocated for the first attempt
RetryAllocation(d, rid) == [no |-> receipts[rid].no, prev |-> receipts[rid].prev]

\* status query: the gateway does not hold the receipt, so it is sent again
ResolveResend(d) ==
  /\ online
  /\ wire[d].stage = "unknown"
  /\ ~GatewayHas(d, wire[d].no)
  /\ LET rid == wire[d].rid
         a == RetryAllocation(d, rid)
         msg == [rid |-> rid, no |-> a.no, prev |-> a.prev,
                 hash |-> Hash(Canonical(d, a.no, a.prev)), stage |-> "request"]
     IN  /\ wire' = [wire EXCEPT ![d] = msg]
         /\ sent' = [sent EXCEPT ![d] = @ \cup {msg}]
         /\ queue' = [queue EXCEPT ![d] = CountAttempt(@, rid)]
  /\ UNCHANGED <<fiscalDay, outsideEngine, lock, lastAllocated, counter, receipts, pc, local, online, gwLog,
                 halted, fatalError, outages, rejects, crashes>>

\* ------------------------------------------------------------- environment
GoOffline ==
  /\ online
  /\ outages + rejects + crashes < MaxFaults
  /\ online' = FALSE
  /\ outages' = outages + 1
  /\ UNCHANGED <<fiscalDay, outsideEngine, lock, lastAllocated, counter, receipts, queue, pc, local, wire,
                 gwLog, sent, halted, fatalError, rejects, crashes>>

GoOnline ==
  /\ ~online
  /\ online' = TRUE
  /\ UNCHANGED <<fiscalDay, outsideEngine, lock, lastAllocated, counter, receipts, queue, pc, local, wire,
                 gwLog, sent, halted, fatalError, outages, rejects, crashes>>

\* ------------------------------------------------------------- operator
\* manual review of the FAILED receipt of a device: it is queued for retry
ManualReview(d) ==
  /\ HasFailed(d)
  /\ LET rid == CHOOSE i \in ReceiptsOf(d) : receipts[i].status = "FAILED"
     IN  /\ receipts' = [receipts EXCEPT ![rid].status = "QUEUED"]
         /\ queue' = [queue EXCEPT ![d] =
                        IF EntryOf(d, rid) = {}
                        THEN Append(@, NewEntry(rid))
                        ELSE SetState(@, rid, "QUEUED")]
  /\ UNCHANGED <<fiscalDay, outsideEngine, lock, lastAllocated, counter, pc, local, online, wire, gwLog, sent,
                 halted, fatalError, outages, rejects, crashes>>

\* receipts that were stored but never dispatched (their worker died)
Orphans(d) ==
  {i \in ReceiptsOf(d) : receipts[i].status = "BUILT" /\ \A w \in Workers : local[w].rid # i}

RECURSIVE AppendAll(_, _)
AppendAll(q, rids) ==
  IF rids = {} THEN q
  ELSE LET rid == CHOOSE i \in rids : \A j \in rids : i <= j
       IN  AppendAll(Append(q, NewEntry(rid)), rids \ {rid})

\* manual resolution of a halted device: the operator recovers the receipts
\* missing from the queue and releases the halt
ManualResolve(d) ==
  /\ halted[d]
  /\ halted' = [halted EXCEPT ![d] = FALSE]
  /\ fatalError' = [fatalError EXCEPT ![d] = "none"]
  /\ queue' = [queue EXCEPT ![d] = AppendAll(@, Orphans(d))]
  /\ receipts' = [i \in 1..Len(receipts) |->
                    IF i \in Orphans(d) THEN [receipts[i] EXCEPT !.status = "QUEUED"]
                    ELSE receipts[i]]
  /\ UNCHANGED <<fiscalDay, outsideEngine, lock, lastAllocated, counter, pc, local, online, wire, gwLog, sent,
                 outages, rejects, crashes>>

\* ------------------------------------------------------------- fiscal day
engineVars == <<lock, lastAllocated, counter, receipts, queue, pc, local, online, wire,
                gwLog, sent, halted, fatalError, outages, rejects, crashes>>

SetDayStatus(d, st) == [fiscalDay EXCEPT ![d].status = st]

\* the Close Day button is offered while the day is open or its close failed
CanCloseDay(d) == fiscalDay[d].status \in {"OPEN", "CLOSE_FAILED"}

\* operator: Close Day; the device row is updated while no creation holds it
CloseDay(d) ==
  /\ CanCloseDay(d)
  /\ d \in Devices => LockFree(d)
  /\ fiscalDay' = SetDayStatus(d, "CLOSE_INITIATED")
  /\ UNCHANGED <<engineVars, outsideEngine>>

ClosePendingOrFailed(d) == fiscalDay[d].status \in {"CLOSE_INITIATED", "CLOSE_FAILED"}
\* the close is in progress at the gateway
ClosePending(d) == fiscalDay[d].status = "CLOSE_INITIATED"

\* the gateway finished the close: the status poll sees the day closed
CloseDayDone(d) ==
  /\ ClosePending(d)
  /\ fiscalDay' = SetDayStatus(d, "CLOSED")
  /\ UNCHANGED <<engineVars, outsideEngine>>

\* the gateway reports that the close failed
CloseDayFail(d) ==
  /\ ClosePending(d)
  /\ fiscalDay' = SetDayStatus(d, "CLOSE_FAILED")
  /\ UNCHANGED <<engineVars, outsideEngine>>

\* operator: Open Day, from a closed day (the next day is opened) or from a
\* failed close (the day is open again)
OpenDay(d) ==
  /\ fiscalDay[d].status \in {"CLOSED", "CLOSE_FAILED"}
  /\ d \in Devices => LockFree(d)
  /\ IF fiscalDay[d].status = "CLOSED"
     THEN /\ fiscalDay[d].no < MaxDays
          /\ fiscalDay' = [fiscalDay EXCEPT ![d] = [no |-> @.no + 1, status |-> "OPEN"]]
     ELSE fiscalDay' = SetDayStatus(d, "OPEN")
  /\ UNCHANGED <<engineVars, outsideEngine>>

\* ------------------------------------------------------------- duplicate guard
Suppliers == {1, 2}
ExtNos == {1, 2}
Sales == {"SALE_INVOICE"}
Corrections == {"CREDIT_NOTE", "DEBIT_NOTE"}
DocTypes == Sales \cup Corrections
EnteredTotal == 10
EditedTotal == 20

Triple(x) == <<x.supplier, x.extNo, x.type>>

\* checkUnique(supplier, externalInvoiceNumber, documentType) -> ok | DuplicateError
CheckUnique(s, e, t) == \A i \in 1..Len(docs) : Triple(docs[i]) # <<s, e, t>>

RecheckSkipped(s, e, t) == TRUE
\* the authoritative re-check, in the transaction that stores the document
RecheckUnique(s, e, t) == CheckUnique(s, e, t)

\* the hard blocks on a correction: it references the global number of an
\* existing, fiscalised sale document, and its own external number is not the
\* original's
CorrectionError(x) ==
  IF x.type \notin Corrections THEN "ok"
  ELSE IF ~(/\ x.ref \in 1..Len(docs)
            /\ docs[x.ref].type \in Sales
            /\ docs[x.ref].status = "SUBMITTED") THEN "invalid_ref"
  ELSE IF x.extNo = docs[x.ref].extNo THEN "invalid_number"
  ELSE "ok"

ValidCorrectionRefOnly(x) == CorrectionError(x) # "invalid_ref"
ValidCorrection(x) == CorrectionError(x) = "ok"

\* canonical string and hash of a stored document (its number and total)
DocCanonical(n, total) == <<n, total>>

NewDoc(x) ==
  [supplier |-> x.supplier, extNo |-> x.extNo, type |-> x.type, ref |-> x.ref,
   no |-> Len(docs) + 1, total |-> EnteredTotal,
   canonical |-> DocCanonical(Len(docs) + 1, EnteredTotal),
   hash |-> Hash(DocCanonical(Len(docs) + 1, EnteredTotal)),
   status |-> "BUILT"]

\* data entry: the correction rules and the fast-fail duplicate check
EnterDoc(u, s, e, t, r) ==
  /\ outcome[u] # "entered"
  /\ Len(docs) < MaxDocs
  /\ t \in Sales => r = 0
  /\ LET x == [supplier |-> s, extNo |-> e, type |-> t, ref |-> r]
     IN  IF ~ValidCorrection(x)
         THEN /\ outcome' = [outcome EXCEPT ![u] = CorrectionError(x)]
              /\ draft' = [draft EXCEPT ![u] = NoDraft]
         ELSE IF ~CheckUnique(s, e, t)
         THEN /\ outcome' = [outcome EXCEPT ![u] = "duplicate_entry"]
              /\ draft' = [draft EXCEPT ![u] = NoDraft]
         ELSE /\ outcome' = [outcome EXCEPT ![u] = "entered"]
              /\ draft' = [draft EXCEPT ![u] = x]
  /\ UNCHANGED <<docs, engineVars, fiscalDay, buildVars, frontVars>>

\* submission: the guard on corrections and the transactional re-check, then
\* the document is stored
SubmitDoc(u) ==
  /\ outcome[u] = "entered"
  /\ LET x == draft[u]
     IN  IF ~ValidCorrection(x)
         THEN /\ outcome' = [outcome EXCEPT ![u] = CorrectionError(x)]
              /\ draft' = [draft EXCEPT ![u] = NoDraft]
              /\ docs' = docs
         ELSE IF ~RecheckUnique(x.supplier, x.extNo, x.type)
         THEN /\ outcome' = [outcome EXCEPT ![u] = "duplicate"]
              /\ draft' = draft
              /\ docs' = docs
         ELSE /\ outcome' = [outcome EXCEPT ![u] = "stored"]
              /\ draft' = [draft EXCEPT ![u] = NoDraft]
              /\ docs' = Append(docs, NewDoc(x))
  /\ UNCHANGED <<engineVars, fiscalDay, buildVars, frontVars>>

\* the gateway confirmed the stored document: it is fiscalised
ConfirmDoc(i) ==
  /\ i <= Len(docs)
  /\ docs[i].status = "BUILT"
  /\ docs' = [docs EXCEPT ![i].status = "SUBMITTED"]
  /\ UNCHANGED <<draft, outcome, engineVars, fiscalDay, buildVars, frontVars>>

EditableAlways(i) == TRUE
\* fiscal data can be changed only before fiscalisation
Editable(i) == docs[i].status # "SUBMITTED"

\* a user changes the total of a stored document: before fiscalisation the
\* document is rebuilt and re-signed, afterwards the change is blocked
EditDoc(u, i) ==
  /\ outcome[u] # "entered"
  /\ i <= Len(docs)
  /\ docs[i].total = EnteredTotal
  /\ IF Editable(i)
     THEN /\ docs' = [docs EXCEPT ![i].total = EditedTotal,
                                  ![i].canonical = DocCanonical(docs[i].no, EditedTotal),
                                  ![i].hash = Hash(DocCanonical(docs[i].no, EditedTotal))]
          /\ outcome' = [outcome EXCEPT ![u] = "edited"]
     ELSE /\ docs' = docs
          /\ outcome' = [outcome EXCEPT ![u] = "blocked"]
  /\ UNCHANGED <<draft, engineVars, fiscalDay, buildVars, frontVars>>

\* ------------------------------------------------------------- receipt builder
\* Amounts are in cents; the prices are whole currency units, so that every
\* product with a tax percent divides by 100 without a remainder.
ReceiptTypes == {"FISCALINVOICE", "CREDITNOTE", "DEBITNOTE"}
Prices == {-200, 100, 200}
Qtys == {-1, 1, 2}
Taxes == {[taxID |-> 1, taxPercent |-> 0], [taxID |-> 2, taxPercent |-> 15]}
Totals == {-115, 115}

LineInputs ==
  {[price |-> p, qty |-> q, taxID |-> t.taxID, taxPercent |-> t.taxPercent] :
     p \in Prices, q \in Qtys, t \in Taxes}

Requests ==
  {[type |-> ty, lines |-> ls, total |-> tot] :
     ty \in ReceiptTypes,
     ls \in UNION {[1..n -> LineInputs] : n \in 1..MaxLines},
     tot \in Totals}

Abs(value) == IF value < 0 THEN -value ELSE value

apply_sign_credit_only(value, receipt_type) ==
  IF receipt_type = "CREDITNOTE" THEN -Abs(value) ELSE value
apply_sign(value, receipt_type) ==
  IF receipt_type = "CREDITNOTE" THEN -Abs(value) ELSE Abs(value)

build_receipt_lines(lines, receipt_type) ==
  [idx \in 1..Len(lines) |->
     LET line == lines[idx]
         net == line.price * line.qty
         net_signed == apply_sign(net, receipt_type)
     IN  [receiptLineNo |-> idx,
          receiptLinePrice |-> apply_sign(line.price, receipt_type),
          receiptLineQuantity |-> line.qty,
          receiptLineTotal |-> net_signed,
          taxCode |-> line.taxID,
          taxPercent |-> line.taxPercent,
          taxID |-> line.taxID]]

\* position of the bucket with a key in the bucket list, 0 when there is none
BucketAt(buckets, key) ==
  IF \E k \in 1..Len(buckets) : buckets[k].taxID = key
  THEN CHOOSE k \in 1..Len(buckets) : buckets[k].taxID = key
  ELSE 0

\* one line added to its bucket; a new bucket is appended (insertion order)
AddLine(buckets, line) ==
  LET tax == (line.receiptLineTotal * line.taxPercent) \div 100
      withKey == IF BucketAt(buckets, line.taxID) = 0
                 THEN Append(buckets, [taxID |-> line.taxID, taxCode |-> line.taxCode,
                                       taxPercent |-> line.taxPercent, taxAmount |-> 0,
                                       salesAmountWithTax |-> 0])
                 ELSE buckets
      k == BucketAt(withKey, line.taxID)
  IN  [withKey EXCEPT ![k].taxAmount = @ + tax,
                      ![k].salesAmountWithTax = @ + line.receiptLineTotal + tax]

RECURSIVE TaxFold(_, _)
TaxFold(lines, n) == IF n = 0 THEN <<>> ELSE AddLine(TaxFold(lines, n - 1), lines[n])

build_receipt_taxes(lines, receipt_type) == TaxFold(lines, Len(lines))

\* the sign rule applied to the receipt total supplied by the caller
ReceiptTotal(total, receipt_type) == apply_sign(total, receipt_type)

\* a caller has handed lines, document type and total to the builder
BuildInit ==
  /\ EngineInit
  /\ DocInit
  /\ FrontInit
  /\ request \in Requests
  /\ built = NoBuilt

\* the receipt is built: signed lines, tax buckets, signed total
BuildReceipt ==
  /\ request # NoRequest
  /\ built = NoBuilt
  /\ LET lines == build_receipt_lines(request.lines, request.type)
     IN  built' = [lines |-> lines,
                   taxes |-> build_receipt_taxes(lines, request.type),
                   total |-> ReceiptTotal(request.total, request.type)]
  /\ UNCHANGED <<request, engineVars, fiscalDay, docVars, frontVars>>

\* ------------------------------------------------------------- invoice totals
MaxItems == 2

\* the quantities and prices entered in the form, and the item lists made of them
FormQtys == {50, 100, 200}
FormPrices == {29, 100, 1450, 2900}
FormItems ==
  {[description |-> "Tea", quantity |-> q, unit_price |-> p,
    tax_id |-> INVOICE_TAXES[t].taxID, tax_percent |-> INVOICE_TAXES[t].taxPercent,
    tax_code |-> INVOICE_TAXES[t].taxCode] :
     q \in FormQtys, p \in FormPrices, t \in 1..Len(INVOICE_TAXES)}
ItemLists == UNION {[1..n -> FormItems] : n \in 1..MaxItems}

\* The products that are an exact half cent and that binary64 arithmetic puts
\* below the half: 0.5 * 0.29 = 0.14499999999999999 (quantity, price), and
\* 29 * (1 + 15.5 / 100) = 33.49499999999999744, likewise 141 and 257 (amount,
\* percent).
LineBelowHalf == {<<50, 29>>}
NetBelowHalf == {<<2900, 155>>, <<14100, 155>>, <<25700, 155>>}

\* round2(val) = Math.round(val * 100) / 100 of the value num / den cents:
\* the nearest cent, a half cent upwards; a product that binary64 puts below
\* its half cent goes down
round2(num, den, below) ==
  IF (2 * num) % (2 * den) = den /\ below
  THEN num \div den
  ELSE (2 * num + den) \div (2 * den)

\* lineSubtotal = round2(qty * price)
LineSubtotal(it) ==
  round2(it.quantity * it.unit_price, 100, <<it.quantity, it.unit_price>> \in LineBelowHalf)

\* salesWithTax = round2(amt * (1 + pct / 100))
SalesWithTax(amt, pct) == round2(amt * (1000 + pct), 1000, <<amt, pct>> \in NetBelowHalf)

\* position of a key in taxByKey, 0 when it is not there
KeyAt(byKey, key) ==
  IF \E k \in 1..Len(byKey) : byKey[k].key = key
  THEN CHOOSE k \in 1..Len(byKey) : byKey[k].key = key
  ELSE 0

\* taxByKey[key] = (taxByKey[key] || 0) + lineSubtotal; a new key goes last
AddToKey(byKey, it) ==
  LET key == <<it.tax_code, it.tax_percent>>
      withKey == IF KeyAt(byKey, key) = 0
                 THEN Append(byKey, [key |-> key, amt |-> 0])
                 ELSE byKey
      k == KeyAt(withKey, key)
  IN  [withKey EXCEPT ![k].amt = @ + LineSubtotal(it)]

RECURSIVE TaxByKey(_, _)
TaxByKey(its, n) == IF n = 0 THEN <<>> ELSE AddToKey(TaxByKey(its, n - 1), its[n])

RECURSIVE SubtotalOf(_, _)
SubtotalOf(its, n) == IF n = 0 THEN 0 ELSE SubtotalOf(its, n - 1) + LineSubtotal(its[n])

RECURSIVE TotalTaxOf(_, _)
TotalTaxOf(byKey, n) ==
  IF n = 0 THEN 0
  ELSE TotalTaxOf(byKey, n - 1)
         + (SalesWithTax(byKey[n].amt, byKey[n].key[2]) - byKey[n].amt)

computeInvoiceTotals(its) ==
  LET taxByKey == TaxByKey(its, Len(its))
      subtotal == SubtotalOf(its, Len(its))
      totalTax == TotalTaxOf(taxByKey, Len(taxByKey))
  IN  [subtotal |-> subtotal, totalTax |-> totalTax,
       grandTotal |-> subtotal + totalTax, taxByKey |-> taxByKey]

\* the totals panel: subtotal, one tax row per key, total tax, grand total
InvoiceTotals ==
  /\ ~shown.rendered
  /\ LET t == computeInvoiceTotals(items)
     IN  shown' = [subtotal |-> t.subtotal,
                   taxes |-> [k \in 1..Len(t.taxByKey) |->
                                [key |-> t.taxByKey[k].key,
                                 net |-> t.taxByKey[k].amt,
                                 taxAmt |-> SalesWithTax(t.taxByKey[k].amt, t.taxByKey[k].key[2])
                                              - t.taxByKey[k].amt]],
                   totalTax |-> t.totalTax,
                   grandTotal |-> t.grandTotal,
                   rendered |-> TRUE]
  /\ UNCHANGED <<items, engineVars, fiscalDay, docVars, buildVars, signVars, viewVars>>

\* the totals panel of a form that holds any list of items
TotalsInit ==
  /\ BackInit
  /\ SignIdle
  /\ ViewIdle
  /\ items \in ItemLists
  /\ shown = NoShown

TotalsNext == InvoiceTotals

TotalsSpec == TotalsInit /\ [][TotalsNext]_vars

\* ------------------------------------------------------------- validation and signing
\* the device, currency, number, date and previous hash of the receipts built
SignDevice == 1
SignCurrency == 1
SignGlobalNo == 2
SignDate == 20240131
SignPrevHash == 4711

Buyers == {1, 2}
\* a total handed in with the lines: right, or a cent off either way
TotalErrors == {-1, 0, 1}

\* the lines of the invoices handed to the builder
SignItems ==
  {[description |-> "Tea", quantity |-> 100, unit_price |-> p,
    tax_id |-> INVOICE_TAXES[t].taxID, tax_percent |-> INVOICE_TAXES[t].taxPercent,
    tax_code |-> INVOICE_TAXES[t].taxCode] : p \in {300, 2900}, t \in {1, 3}}
SignLines == UNION {[1..n -> SignItems] : n \in 1..MaxItems}

\* Tax aggregation as computeInvoiceTotals and the totals panel do it: one
\* bucket per (tax code, tax percent) in the order first encountered, with its
\* net amount, tax, and sales amount with tax
TaxAggregator(lines) ==
  LET byKey == computeInvoiceTotals(lines).taxByKey
  IN  [k \in 1..Len(byKey) |->
         [taxCode |-> byKey[k].key[1], taxPercent |-> byKey[k].key[2],
          net |-> byKey[k].amt,
          taxAmount |-> SalesWithTax(byKey[k].amt, byKey[k].key[2]) - byKey[k].amt,
          salesAmountWithTax |-> SalesWithTax(byKey[k].amt, byKey[k].key[2])]]

RECURSIVE SumGross(_, _)
SumGross(taxes, n) == IF n = 0 THEN 0 ELSE SumGross(taxes, n - 1) + taxes[n].salesAmountWithTax

\* receiptTotal == sum(lineTotals + tax)
ExpectedTotal(lines) == computeInvoiceTotals(lines).grandTotal

\* the invoices handed to the builder
Candidates ==
  {[vat |-> v, issue_tax_invoice |-> i, buyer_data |-> b, lines |-> ls,
    total |-> ExpectedTotal(ls) + e] :
     v \in BOOLEAN, i \in BOOLEAN, b \in Buyers \cup {NoBuyer}, ls \in SignLines,
     e \in TotalErrors}

resolve_receipt_type(issue_tax_invoice) ==
  IF issue_tax_invoice THEN "FISCALINVOICE" ELSE "FISCALRECEIPT"

receipt_contains_vat(lines) == \E i \in 1..Len(lines) : lines[i].tax_percent > 0

\* Canonical Builder: device id, receipt type, currency, global number, date,
\* total in cents, the tax block (per bucket, in order: code, percent with two
\* decimals, tax amount, gross amount), the previous hash when there is one
TypeCode(receiptType) == IF receiptType = "FISCALINVOICE" THEN 1 ELSE 2

RECURSIVE TaxBlock(_, _)
TaxBlock(taxes, n) ==
  IF n = 0 THEN <<>>
  ELSE TaxBlock(taxes, n - 1)
         \o <<taxes[n].taxPercent \div 10, 10 * (taxes[n].taxPercent % 10),
              taxes[n].taxAmount, taxes[n].salesAmountWithTax>>

CanonicalWithBuyer(p, prev) ==
  <<SignDevice, TypeCode(p.receiptType), SignCurrency, SignGlobalNo, SignDate,
    p.receiptTotal, p.buyerData>>
    \o TaxBlock(p.receiptTaxes, Len(p.receiptTaxes))
    \o (IF prev = NoHash THEN <<>> ELSE <<prev>>)
CanonicalString(p, prev) ==
  <<SignDevice, TypeCode(p.receiptType), SignCurrency, SignGlobalNo, SignDate,
    p.receiptTotal>>
    \o TaxBlock(p.receiptTaxes, Len(p.receiptTaxes))
    \o (IF prev = NoHash THEN <<>> ELSE <<prev>>)

\* build_receipt: the type is resolved, buyer data is required for a tax
\* invoice and dropped for a retail receipt, the taxes are aggregated
build_receipt ==
  /\ verdict = "received"
  /\ LET receipt_type == resolve_receipt_type(candidate.issue_tax_invoice)
     IN  IF receipt_type = "FISCALINVOICE" /\ candidate.buyer_data = NoBuyer
         THEN /\ verdict' = "Buyer data required for tax invoice"
              /\ payload' = payload
         ELSE /\ verdict' = "built"
              /\ payload' = [NoPayload EXCEPT
                    !.receiptType = receipt_type,
                    !.buyerData = IF receipt_type = "FISCALINVOICE"
                                  THEN candidate.buyer_data ELSE NoBuyer,
                    !.receiptTaxes = TaxAggregator(candidate.lines),
                    !.receiptTotal = candidate.total]
  /\ UNCHANGED <<candidate, signedBefore, engineVars, fiscalDay, docVars, buildVars, totalsVars, viewVars>>

VatAllowedAlways(c) == TRUE
\* VAT usage matches the taxpayer's VAT status
VatAllowed(c) == c.vat \/ ~receipt_contains_vat(c.lines)

TotalsMatchUnchecked(p) == TRUE
\* receiptTotal equals sum(lines + tax): the gross amounts of the buckets
TotalsMatch(p) == SumGross(p.receiptTaxes, Len(p.receiptTaxes)) = p.receiptTotal

\* the validation before signing; a receipt that fails is rejected as it is
ValidateReceipt ==
  /\ verdict = "built"
  /\ verdict' = IF ~VatAllowed(candidate) THEN "VAT not allowed for non-VAT taxpayer"
                ELSE IF ~TotalsMatch(payload) THEN "Receipt total mismatch"
                ELSE "validated"
  /\ UNCHANGED <<candidate, payload, signedBefore, engineVars, fiscalDay, docVars, buildVars,
                 totalsVars, viewVars>>

\* canonical string, hash and device signature of the validated receipt
SignReceipt ==
  /\ verdict = "validated"
  /\ verdict' = "signed"
  /\ payload' = [payload EXCEPT
        !.canonical = CanonicalString(payload, SignPrevHash),
        !.hash = Hash(CanonicalString(payload, SignPrevHash)),
        !.signature = Hash(<<SignDevice, Hash(CanonicalString(payload, SignPrevHash))>>)]
  /\ UNCHANGED <<candidate, signedBefore, engineVars, fiscalDay, docVars, buildVars, totalsVars, viewVars>>

\* buyer data of a signed tax invoice is replaced: canonical string, hash and
\* signature are regenerated
ChangeBuyer(b) ==
  /\ verdict = "signed"
  /\ payload.receiptType = "FISCALINVOICE"
  /\ b # payload.buyerData
  /\ LET p == [payload EXCEPT !.buyerData = b]
     IN  payload' = [p EXCEPT
           !.canonical = CanonicalString(p, SignPrevHash),
           !.hash = Hash(CanonicalString(p, SignPrevHash)),
           !.signature = Hash(<<SignDevice, Hash(CanonicalString(p, SignPrevHash))>>)]
  /\ candidate' = [candidate EXCEPT !.buyer_data = b]
  /\ signedBefore' = payload
  /\ UNCHANGED <<verdict, engineVars, fiscalDay, docVars, buildVars, totalsVars, viewVars>>

\* SubmitReceipt: the signed receipt goes to the gateway
SubmitSigned ==
  /\ verdict = "signed"
  /\ verdict' = "submitted"
  /\ UNCHANGED <<candidate, payload, signedBefore, engineVars, fiscalDay, docVars, buildVars,
                 totalsVars, viewVars>>

\* an invoice was handed to the builder
SignInit ==
  /\ BackInit
  /\ TotalsIdle
  /\ ViewIdle
  /\ candidate \in Candidates
  /\ payload = NoPayload
  /\ signedBefore = NoPayload
  /\ verdict = "received"

SignNext ==
  \/ build_receipt
  \/ ValidateReceipt
  \/ SignReceipt
  \/ \E b \in Buyers : ChangeBuyer(b)
  \/ SubmitSigned

SignSpec == SignInit /\ [][SignNext]_vars

\* ------------------------------------------------------------- certificate expiry
\* Time left on a certificate is counted in half days, so that a certificate
\* can run out in the middle of a day; a negative count is a certificate that
\* ran out.
HalfDaysPerDay == 2
CertRemaining == -6..130

\* Math.ceil((d - now) / day)
DaysLeft(remaining) ==
  IF remaining >= 0
  THEN (remaining + HalfDaysPerDay - 1) \div HalfDaysPerDay
  ELSE -((-remaining) \div HalfDaysPerDay)

\* daysRemaining as the certificate-status endpoint reports it
daysRemaining(c) == DaysLeft(c.remaining)

\* the variant the widget hands to its badge
CertificateExpiryVariant(c) ==
  IF ~c.present THEN "default"
  ELSE IF daysRemaining(c) > 60 THEN "success"
  ELSE IF daysRemaining(c) > 30 THEN "warning"
  ELSE "danger"

\* device detail page
certStatusClass(c) ==
  IF ~c.present THEN "bg-slate-100 text-slate-700"
  ELSE IF DaysLeft(c.remaining) > 60 THEN "bg-green-100 text-green-800"
  ELSE IF DaysLeft(c.remaining) > 30 THEN "bg-amber-100 text-amber-800"
  ELSE "bg-red-100 text-red-800"

\* device list
certStatusColor(c) ==
  IF ~c.present THEN "text-slate-500"
  ELSE IF DaysLeft(c.remaining) > 60 THEN "text-green-600"
  ELSE IF DaysLeft(c.remaining) > 30 THEN "text-amber-600"
  ELSE "text-red-600"

\* the colour a badge variant or a style class shows
IndicatorColour(style) ==
  CASE style \in {"success", "bg-green-100 text-green-800", "text-green-600"} -> "green"
    [] style \in {"warning", "bg-amber-100 text-amber-800", "text-amber-600"} -> "yellow"
    [] style \in {"danger", "bg-red-100 text-red-800", "text-red-600"} -> "red"
    [] OTHER -> "grey"

CertificateExpiry ==
  /\ certViews.widget = "none"
  /\ certViews' = [certViews EXCEPT !.widget = IndicatorColour(CertificateExpiryVariant(cert))]
  /\ UNCHANGED <<cert, engineVars, fiscalDay, docVars, buildVars, totalsVars, signVars, formVars, dashVars>>

DeviceList ==
  /\ certViews.list = "none"
  /\ certViews' = [certViews EXCEPT !.list = IndicatorColour(certStatusColor(cert))]
  /\ UNCHANGED <<cert, engineVars, fiscalDay, docVars, buildVars, totalsVars, signVars, formVars, dashVars>>

DeviceDetail ==
  /\ certViews.detail = "none"
  /\ certViews' = [certViews EXCEPT !.detail = IndicatorColour(certStatusClass(cert))]
  /\ UNCHANGED <<cert, engineVars, fiscalDay, docVars, buildVars, totalsVars, signVars, formVars, dashVars>>

\* a device with any certificate, or none, before the views render
CertInit ==
  /\ BackInit
  /\ TotalsIdle
  /\ SignIdle
  /\ FormIdle
  /\ DashIdle
  /\ cert \in {NoCert} \cup [present : {TRUE}, remaining : CertRemaining]
  /\ certViews = NoViews

CertNext ==
  \/ CertificateExpiry
  \/ DeviceList
  \/ DeviceDetail

CertSpec == CertInit /\ [][CertNext]_vars

\* ------------------------------------------------------------- invoice form
\* A user event (a click, a keystroke, the submit) is one step together with
\* the effects its state change triggers; a response of the server and a
\* message on the progress socket are steps of their own.
MaxPayments == 2

\* the devices loaded from /api/devices/: one VAT-registered, one not
FormDevices ==
  <<[device_id |-> 1, is_vat_registered |-> TRUE],
    [device_id |-> 2, is_vat_registered |-> FALSE]>>

\* devices.find((d) => d.device_id === deviceId)?.is_vat_registered ?? true
VatFlagOf(id) ==
  IF \E k \in 1..Len(FormDevices) : FormDevices[k].device_id = id
  THEN FormDevices[CHOOSE k \in 1..Len(FormDevices) : FormDevices[k].device_id = id]
         .is_vat_registered
  ELSE TRUE
isVatRegistered == VatFlagOf(deviceId)

\* the taxes the item table offers
ZeroRated(t) == t.taxPercent = 0
taxes == IF isVatRegistered THEN INVOICE_TAXES ELSE SelectSeq(INVOICE_TAXES, ZeroRated)

\* String.trim on the names typed in the model
Trim(str) == IF str = " " THEN "" ELSE str

RECURSIVE SumAmounts(_, _)
SumAmounts(pays, n) == IF n = 0 THEN 0 ELSE SumAmounts(pays, n - 1) + pays[n]
totalPaid(pays) == SumAmounts(pays, Len(pays))
grandTotal(its) == computeInvoiceTotals(its).grandTotal

\* the top-up effect, which runs when the grand total changed: the first
\* payment grows by the shortfall
TopUp(pays, before, after) ==
  IF after # before /\ after > 0 /\ totalPaid(pays) < after /\ Len(pays) > 0
  THEN [pays EXCEPT ![1] = @ + (after - totalPaid(pays))]
  ELSE pays

\* setItems, with the default-item effect and the top-up effect that follow it
SetItemsNoDefault(updated) ==
  /\ items' = updated
  /\ payments' = TopUp(payments, grandTotal(items), grandTotal(items'))
SetItems(updated) ==
  /\ items' = IF Len(updated) = 0 THEN <<NewItem(INVOICE_TAXES)>> ELSE updated
  /\ payments' = TopUp(payments, grandTotal(items), grandTotal(items'))

addItem ==
  /\ Len(items) < MaxItems
  /\ SetItems(Append(items, NewItem(taxes)))
  /\ UNCHANGED <<deviceId, buyerVars, postVars, shown, engineVars, fiscalDay, docVars,
                 buildVars, signVars, certVars, dashVars>>

removeItem(i) ==
  /\ i \in 1..Len(items)
  /\ SetItems(SubSeq(items, 1, i - 1) \o SubSeq(items, i + 1, Len(items)))
  /\ UNCHANGED <<deviceId, buyerVars, postVars, shown, engineVars, fiscalDay, docVars,
                 buildVars, signVars, certVars, dashVars>>

\* a tax picked from the offered ones brings its percent and code along; the
\* empty option leaves percent and code as they were
updateItem(i, field, value) ==
  /\ i \in 1..Len(items)
  /\ LET updated == [items EXCEPT ![i][field] = value]
         selTax == {k \in 1..Len(taxes) :
                      field = "tax_id" /\ value # NoTax /\ taxes[k].taxID = value}
         it == IF selTax # {}
               THEN [updated[i] EXCEPT
                       !.tax_percent = taxes[CHOOSE k \in selTax : TRUE].taxPercent,
                       !.tax_code = taxes[CHOOSE k \in selTax : TRUE].taxCode]
               ELSE updated[i]
     IN  SetItems([updated EXCEPT ![i] = it])
  /\ UNCHANGED <<deviceId, buyerVars, postVars, shown, engineVars, fiscalDay, docVars,
                 buildVars, signVars, certVars, dashVars>>

addPayment ==
  /\ Len(payments) < MaxPayments
  /\ payments' = Append(payments, 0)
  /\ UNCHANGED <<deviceId, buyerVars, postVars, totalsVars, engineVars, fiscalDay, docVars,
                 buildVars, signVars, certVars, dashVars>>

removePayment(i) ==
  /\ i \in 1..Len(payments)
  /\ payments' = SubSeq(payments, 1, i - 1) \o SubSeq(payments, i + 1, Len(payments))
  /\ UNCHANGED <<deviceId, buyerVars, postVars, totalsVars, engineVars, fiscalDay, docVars,
                 buildVars, signVars, certVars, dashVars>>

updatePayment(i, amount) ==
  /\ i \in 1..Len(payments)
  /\ payments' = [payments EXCEPT ![i] = amount]
  /\ UNCHANGED <<deviceId, buyerVars, postVars, totalsVars, engineVars, fiscalDay, docVars,
                 buildVars, signVars, certVars, dashVars>>

\* the progress socket follows the device while a submission is pending
setDeviceId(d) ==
  /\ d # deviceId
  /\ deviceId' = d
  /\ progressWs' = IF submitting /\ d # NoDevice THEN "open" ELSE "none"
  /\ UNCHANGED <<buyerVars, payments, submitting, progress, result, posted, inflight,
                 totalsVars, engineVars, fiscalDay, docVars, buildVars, signVars, certVars, dashVars>>

setIssueTaxInvoice(checked) ==
  /\ checked # issueTaxInvoice
  /\ issueTaxInvoice' = checked
  /\ UNCHANGED <<deviceId, customerName, customerTin, payments, postVars, totalsVars,
                 engineVars, fiscalDay, docVars, buildVars, signVars, certVars, dashVars>>

setCustomerName(name) ==
  /\ name # customerName
  /\ customerName' = name
  /\ UNCHANGED <<deviceId, issueTaxInvoice, customerTin, payments, postVars, totalsVars,
                 engineVars, fiscalDay, docVars, buildVars, signVars, certVars, dashVars>>

setCustomerTin(tin) ==
  /\ tin # customerTin
  /\ customerTin' = tin
  /\ UNCHANGED <<deviceId, issueTaxInvoice, customerName, payments, postVars, totalsVars,
                 engineVars, fiscalDay, docVars, buildVars, signVars, certVars, dashVars>>

\* totalPaid < grandTotal is the last check of handleSubmit
PaymentsCoverAlways == TRUE
PaymentsCover == totalPaid(payments) >= grandTotal(items)

\* the checks of handleSubmit, in their order: the message of the first one
\* that fails, NoError when all pass
NoError == ""
FormError ==
  IF deviceId = NoDevice THEN "Select a device"
  ELSE IF \E i \in 1..Len(items) : Trim(items[i].description) = ""
  THEN "All items must have an item name"
  ELSE IF \E i \in 1..Len(items) : items[i].tax_id = NoTax
  THEN "All items must have a tax selected (0% or 15.5%)"
  ELSE IF issueTaxInvoice /\ Trim(customerName) = "" /\ Trim(customerTin) = ""
  THEN "Tax invoice requires customer name or TIN"
  ELSE IF \E i \in 1..Len(items) : items[i].tax_id \notin {1, 2, 517}
  THEN "Invalid tax. Use 0% (1/2) or 15.5% (517) only."
  ELSE IF \E i \in 1..Len(items) : items[i].tax_percent \notin {0, 155}
  THEN "Invalid tax. Use 0% or 15.5% only."
  ELSE IF ~PaymentsCover
  THEN "Payment total must be >= grand total"
  ELSE NoError

\* the body of the POST
Payload ==
  [device_id |-> deviceId, issue_tax_invoice |-> issueTaxInvoice,
   customer_name |-> customerName, customer_tin |-> customerTin,
   items |-> [i \in 1..Len(items) |->
                [item_name |-> Trim(items[i].description), quantity |-> items[i].quantity,
                 unit_price |-> items[i].unit_price, tax_id |-> items[i].tax_id,
                 tax_percent |-> items[i].tax_percent, tax_code |-> items[i].tax_code]],
   payments |-> payments]

\* the submit button is disabled while a submission is pending
SubmitAlways == TRUE
SubmitEnabled == ~submitting

handleSubmit ==
  /\ SubmitEnabled
  /\ IF FormError # NoError
     THEN /\ result' = [kind |-> "error", error |-> FormError]
          /\ UNCHANGED <<submitting, progress, posted, inflight, progressWs>>
     ELSE /\ result' = NoResult
          /\ submitting' = TRUE
          /\ progress' = [percent |-> 0, stage |-> "Submitting..."]
          /\ posted' = Payload
          /\ inflight' = inflight + 1
          /\ progressWs' = "open"
  /\ UNCHANGED <<deviceId, buyerVars, payments, totalsVars, engineVars, fiscalDay, docVars,
                 buildVars, signVars, certVars, dashVars>>

\* the POST settles: with a response, or with an error
PostSettles(ok) ==
  /\ inflight > 0
  /\ result' = IF ok THEN [kind |-> "success", error |-> ""]
                     ELSE [kind |-> "error", error |-> "Request failed"]
  /\ submitting' = FALSE
  /\ progress' = NoProgress
  /\ inflight' = inflight - 1
  /\ UNCHANGED <<deviceId, buyerVars, payments, posted, progressWs, totalsVars, engineVars,
                 fiscalDay, docVars, buildVars, signVars, certVars, dashVars>>

\* ws.onmessage: a receipt.progress message
ProgressMessage(d) ==
  /\ progressWs = "open"
  /\ progress' = d
  /\ UNCHANGED <<deviceId, buyerVars, payments, submitting, result, posted, inflight,
                 progressWs, totalsVars, engineVars, fiscalDay, docVars, buildVars, signVars,
                 certVars, dashVars>>

\* ws.onmessage: receipt.completed, receipt.failed or error closes the socket
TerminalMessage ==
  /\ progressWs = "open"
  /\ progressWs' = "none"
  /\ UNCHANGED <<deviceId, buyerVars, payments, submitting, progress, result, posted,
                 inflight, totalsVars, engineVars, fiscalDay, docVars, buildVars, signVars,
                 certVars, dashVars>>

\* the cleanup of the progress effect, once submitting is false again
ProgressCleanup ==
  /\ ~submitting
  /\ progressWs = "open"
  /\ progressWs' = "none"
  /\ UNCHANGED <<deviceId, buyerVars, payments, submitting, progress, result, posted,
                 inflight, totalsVars, engineVars, fiscalDay, docVars, buildVars, signVars,
                 certVars, dashVars>>

\* what the user of the model types and picks
FormDeviceIds == {NoDevice} \cup {FormDevices[k].device_id : k \in 1..Len(FormDevices)}
Names == {"", "Acme"}
Descriptions == {"", " ", "Tea"}

\* the rows of the form: rows are added, named and removed, and the form is
\* submitted
RowsNext ==
  \/ \E d \in FormDeviceIds : setDeviceId(d)
  \/ \E name \in Names : setCustomerName(name)
  \/ addItem
  \/ \E i \in 1..MaxItems : removeItem(i)
  \/ \E i \in 1..MaxItems, v \in Descriptions : updateItem(i, "description", v)
  \/ handleSubmit
  \/ \E ok \in BOOLEAN : PostSettles(ok)

RowsSpec == Init /\ [][RowsNext]_vars

\* the options of the tax select of a row: the empty one and the offered taxes
TaxOptions == {NoTax} \cup {taxes[k].taxID : k \in 1..Len(taxes)}

\* the taxes of the rows: devices are selected, rows added, taxes picked, and
\* the form is submitted
TaxNext ==
  \/ \E d \in FormDeviceIds : setDeviceId(d)
  \/ \E name \in Names \ {""} : setCustomerName(name)
  \/ addItem
  \/ \E i \in 1..MaxItems, v \in TaxOptions : updateItem(i, "tax_id", v)
  \/ \E i \in 1..MaxItems : updateItem(i, "description", "Tea")
  \/ handleSubmit

TaxSpec == Init /\ [][TaxNext]_vars

\* the payments of the form: the price of the row and the payments are edited,
\* and the form is submitted
PayPrices == {0, 2900}
PayAmounts == {0, 1000}
PayNext ==
  \/ \E d \in {NoDevice, 1} : setDeviceId(d)
  \/ \E name \in Names \ {""} : setCustomerName(name)
  \/ \E v \in {"", "Tea"} : updateItem(1, "description", v)
  \/ \E price \in PayPrices : updateItem(1, "unit_price", price)
  \/ addPayment
  \/ \E i \in 1..MaxPayments : removePayment(i)
  \/ \E i \in 1..MaxPayments, amount \in PayAmounts : updatePayment(i, amount)
  \/ handleSubmit
  \/ \E ok \in BOOLEAN : PostSettles(ok)

PaySpec == Init /\ [][PayNext]_vars

\* the submission: the form is filled in and submitted, the POST settles, and
\* the progress socket delivers its messages
Tins == {"", "1234567890"}
ProgressEvents == {[percent |-> 50, stage |-> "Signing"]}
SubmitNext ==
  \/ \E d \in FormDeviceIds : setDeviceId(d)
  \/ \E checked \in BOOLEAN : setIssueTaxInvoice(checked)
  \/ \E name \in Names : setCustomerName(name)
  \/ \E tin \in Tins : setCustomerTin(tin)
  \/ \E v \in {"", "Tea"} : updateItem(1, "description", v)
  \/ handleSubmit
  \/ \E ok \in BOOLEAN : PostSettles(ok)
  \/ \E d \in ProgressEvents : ProgressMessage(d)
  \/ TerminalMessage
  \/ ProgressCleanup

SubmitSpec == Init /\ [][SubmitNext]_vars

\* ------------------------------------------------------------- dashboard
\* A change of the device selector is one step together with the effects it
\* triggers; a new token arrives with a response of the server, and the effect
\* that follows it is a step of its own.
MaxSockets == 3
ActivityLimit == 2

DashDevices == {1, 2}
Tokens == {NoToken, 1}
DashEventTypes == {"metrics.updated", "receipt.progress", "receipt.completed", "error"}

\* the events the server sends down a socket: those of its device, or of every
\* device on the socket of the dashboard group
Subscribed(ws, device) == ws.deviceId = NoDevice \/ ws.deviceId = device

\* the cleanup of the socket effect closes the socket the effect created
NoCleanup(socks) == socks
Cleanup(socks) == [socks EXCEPT ![Len(socks)].open = FALSE]

\* the socket effect: cleanup, then a socket for the selection and the token
Reconnected(dev, tok) ==
  Append(Cleanup(sockets), createDashboardWebSocket(dev, tok))

setSelectedDevice(d) ==
  /\ d # selectedDevice
  /\ Len(sockets) < MaxSockets
  /\ selectedDevice' = d
  /\ sockets' = Reconnected(d, token)
  /\ fetching' = fetching \cup {d}
  /\ UNCHANGED <<token, metrics, activity, receiptProgress, engineVars, fiscalDay, docVars,
                 buildVars, totalsVars, signVars, certVars, formVars>>

setToken(t) ==
  /\ t # token
  /\ token' = t
  /\ UNCHANGED <<selectedDevice, sockets, metrics, activity, receiptProgress, fetching,
                 engineVars, fiscalDay, docVars, buildVars, totalsVars, signVars, certVars,
                 formVars>>

\* the socket effect after the token changed
TokenEffect ==
  /\ sockets[Len(sockets)].token # token
  /\ Len(sockets) < MaxSockets
  /\ sockets' = Reconnected(selectedDevice, token)
  /\ UNCHANGED <<selectedDevice, token, metrics, activity, receiptProgress, fetching,
                 engineVars, fiscalDay, docVars, buildVars, totalsVars, signVars, certVars,
                 formVars>>

\* [data, ...prev].slice(0, limit)
Prepend(data, prev) == SubSeq(<<data>> \o prev, 1, IF Len(prev) + 1 > ActivityLimit
                                                      THEN ActivityLimit ELSE Len(prev) + 1)

\* ws.onmessage of socket k: a closed socket delivers nothing
onMessage(k, data) ==
  /\ k \in 1..Len(sockets)
  /\ sockets[k].open
  /\ Subscribed(sockets[k], data.device)
  /\ metrics' = IF data.type = "metrics.updated"
                THEN [device |-> data.device, via |-> "socket"]
                ELSE metrics
  /\ receiptProgress' =
       IF data.type = "receipt.progress" THEN data
       ELSE IF data.type \in {"receipt.completed", "receipt.failed"} THEN NoReceiptProgress
       ELSE receiptProgress
  /\ activity' =
       IF data.type \in {"receipt.completed", "receipt.failed", "fiscal.opened",
                         "fiscal.closed", "activity", "certificate.updated"}
       THEN Prepend(data, activity)
       ELSE activity
  /\ UNCHANGED <<selectedDevice, token, sockets, fetching, engineVars, fiscalDay, docVars,
                 buildVars, totalsVars, signVars, certVars, formVars>>

\* loadMetrics: the response to the metrics request of selection d
loadMetrics(d) ==
  /\ d \in fetching
  /\ metrics' = [device |-> d, via |-> "request"]
  /\ fetching' = fetching \ {d}
  /\ UNCHANGED <<selectedDevice, token, sockets, activity, receiptProgress, engineVars,
                 fiscalDay, docVars, buildVars, totalsVars, signVars, certVars, formVars>>

DashNext ==
  \/ \E d \in DashDevices \cup {NoDevice} : setSelectedDevice(d)
  \/ \E t \in Tokens : setToken(t)
  \/ TokenEffect
  \/ \E k \in 1..MaxSockets, type \in DashEventTypes, d \in DashDevices :
       onMessage(k, [device |-> d, type |-> type])
  \/ \E d \in DashDevices \cup {NoDevice} : loadMetrics(d)

DashSpec == Init /\ [][DashNext]_vars

\* ------------------------------------------------------------- specification
Next ==
  \/ \E w \in Workers, d \in Devices : StartCreate(w, d)
  \/ \E w \in Workers : AllocateNext(w)
  \/ \E w \in Workers : BuildAndStore(w)
  \/ \E w \in Workers : SubmitNow(w)
  \/ \E w \in Workers : Enqueue(w)
  \/ \E w \in Workers : Crash(w)
  \/ \E d \in Devices : ReplayNext(d)
  \/ \E d \in Devices : ReplayHalt(d)
  \/ \E d \in Devices : GatewayAccept(d)
  \/ \E d \in Devices : GatewayReject(d)
  \/ \E d \in Devices : GatewayAcceptUnsigned(d)
  \/ \E d \in Devices : VerifyFailed(d)
  \/ \E d \in Devices : ConfirmSuccess(d)
  \/ \E d \in Devices : RejectFailed(d)
  \/ \E d \in Devices : Timeout(d)
  \/ \E d \in Devices : ResolveReceived(d)
  \/ \E d \in Devices : ResolveResend(d)
  \/ GoOffline
  \/ GoOnline
  \/ \E d \in Devices : ManualReview(d)
  \/ \E d \in Devices : ManualResolve(d)

Spec == Init /\ [][Next]_vars

\* a fair engine and gateway: workers, replay, the gateway and the status query
\* take their steps when they can; outages, crashes and operator actions are free
Fairness ==
  /\ \A w \in Workers : WF_vars(AllocateNext(w) \/ BuildAndStore(w) \/ SubmitNow(w) \/ Enqueue(w))
  /\ \A d \in Devices : WF_vars(ReplayNext(d) \/ ReplayHalt(d))
  /\ \A d \in Devices : WF_vars(GatewayAccept(d))
  /\ \A d \in Devices : WF_vars(ConfirmSuccess(d) \/ RejectFailed(d) \/ VerifyFailed(d))
  /\ \A d \in Devices : WF_vars(Timeout(d))
  /\ \A d \in Devices : WF_vars(ResolveReceived(d) \/ ResolveResend(d))

FairSpec == Init /\ [][Next]_vars /\ Fairness

\* the creation flow and the submission of receipts across fiscal days, with a
\* connection that stays up
DayNext ==
  \/ \E w \in Workers, d \in Devices : StartCreate(w, d)
  \/ \E w \in Workers : AllocateNext(w)
  \/ \E w \in Workers : RejectCreate(w)
  \/ \E w \in Workers : BuildAndStore(w)
  \/ \E w \in Workers : SubmitNow(w)
  \/ \E w \in Workers : Enqueue(w)
  \/ \E d \in Devices : ReplayNext(d)
  \/ \E d \in Devices : GatewayAccept(d)
  \/ \E d \in Devices : ConfirmSuccess(d)
  \/ \E d \in DayDevices : CloseDay(d)
  \/ \E d \in DayDevices : CloseDayDone(d)
  \/ \E d \in DayDevices : CloseDayFail(d)
  \/ \E d \in DayDevices : OpenDay(d)

DaySpec == Init /\ [][DayNext]_vars

\* the duplicate guard and the document store
DocNext ==
  \/ \E u \in Users, s \in Suppliers, e \in ExtNos, t \in DocTypes, r \in 0..MaxDocs :
       EnterDoc(u, s, e, t, r)
  \/ \E u \in Users : SubmitDoc(u)
  \/ \E i \in 1..MaxDocs : ConfirmDoc(i)
  \/ \E u \in Users, i \in 1..MaxDocs : EditDoc(u, i)

DocSpec == Init /\ [][DocNext]_vars

\* the receipt builder over every request of the bounded input sets
BuildNext == BuildReceipt

BuildSpec == BuildInit /\ [][BuildNext]_vars

\* the engine with every fault, across fiscal days
FullNext == Next \/ DayNext

FullSpec == Init /\ [][FullNext]_vars

\* ------------------------------------------------------------- properties
Holding == {w \in Workers : pc[w] \in {"allocated", "built"}}

\* C1: for one device, no two allocations return the same global number or the
\* same previous hash, whether they are held by workers or stored on receipts,
\* so no two receipts of a device carry the same global number. (The absent
\* previous hash of the first receipt of a fiscal day is no hash: it recurs
\* once per fiscal day.)
C1_AllocationsDistinct ==
  /\ \A i, j \in 1..Len(receipts) :
       (i # j /\ receipts[i].dev = receipts[j].dev) =>
         /\ receipts[i].no # receipts[j].no
         /\ \/ receipts[i].prev # receipts[j].prev
            \/ (receipts[i].prev = NoHash /\ receipts[i].day # receipts[j].day)
  /\ \A v, w \in Holding :
       (v # w /\ local[v].dev = local[w].dev) =>
         (local[v].no # local[w].no /\ local[v].prev # local[w].prev)
  /\ \A w \in Holding : \A i \in ReceiptsOf(local[w].dev) :
       i # local[w].rid =>
         /\ receipts[i].no # local[w].no
         /\ \/ receipts[i].prev # local[w].prev
            \/ (local[w].prev = NoHash /\ receipts[i].day # fiscalDay[local[w].dev].no)

\* two allocations made for the device while a second caller was waiting for it
C1_Witness ==
  \E v, w \in Workers :
    /\ v # w
    /\ pc[v] = "waiting" /\ pc[w] = "built"
    /\ local[v].dev = local[w].dev
    /\ local[w].no = 2
    /\ lock[local[w].dev] = w

\* C2: the durable counter of a device changes only in the step that confirms a
\* submission (the receipt goes from SUBMITTING to SUBMITTED and the counter
\* becomes its number); a step in which a receipt of the device fails or is
\* placed on the offline queue leaves the counter as it was.
C2_CounterOnlyOnConfirm ==
  [][\A d \in Devices :
       /\ counter'[d] # counter[d] =>
            \E i \in ReceiptsOf(d) :
              /\ receipts[i].status = "SUBMITTING"
              /\ receipts'[i].status = "SUBMITTED"
              /\ counter'[d] = receipts[i].no
       /\ (\E i \in ReceiptsOf(d) :
             /\ receipts'[i].status \in {"FAILED", "QUEUED"}
             /\ receipts'[i].status # receipts[i].status)
          => counter'[d] = counter[d]]_vars

\* a confirmed receipt, then a later one failed or queued with the counter behind
C2_Witness ==
  \E d \in Devices :
    /\ counter[d] >= 1
    /\ \E i, j \in ReceiptsOf(d) :
         /\ receipts[i].status = "FAILED"
         /\ receipts[j].status = "QUEUED"
         /\ receipts[i].no > counter[d]

\* C3: every request handed to the gateway client for a receipt, first attempt or
\* retry, carries the number, previous hash and hash stored on the receipt at
\* its allocation, and a device has made exactly one allocation per receipt.
C3_RetryReusesAllocation ==
  \A d \in Devices :
    /\ \A m \in sent[d] :
         /\ m.no = receipts[m.rid].no
         /\ m.prev = receipts[m.rid].prev
         /\ m.hash = receipts[m.rid].hash
    /\ \A m, k \in sent[d] : m.rid = k.rid => m = k
    /\ lastAllocated[d] = Cardinality(ReceiptsOf(d))

\* a second receipt, taken from the offline queue and sent again after a timeout
C3_Witness ==
  \E d \in Devices : \E i \in 1..Len(queue[d]) :
    /\ queue[d][i].attempts >= 2
    /\ queue[d][i].lastError = "timeout"
    /\ queue[d][i].key >= 2
    /\ wire[d].stage = "request"
    /\ wire[d].rid = queue[d][i].receipt.rid

Count(s, x) == Cardinality({k \in 1..Len(s) : s[k] = x})

\* C4: the gateway accepts each receipt number of a device at most once, and
\* every SUBMITTED receipt was accepted exactly once.
C4_AcceptedOnce ==
  \A d \in Devices :
    /\ \A n \in Range(gwLog[d]) : Count(gwLog[d], n) = 1
    /\ \A i \in ReceiptsOf(d) :
         receipts[i].status = "SUBMITTED" => Count(gwLog[d], receipts[i].no) = 1

\* a receipt confirmed through the status query after its response was lost
C4_Witness ==
  \E d \in Devices : \E i \in 1..Len(queue[d]) :
    /\ queue[d][i].state = "SUBMITTED"
    /\ queue[d][i].lastError = "timeout"
    /\ queue[d][i].attempts = 1

\* C5: the gateway receives the receipts of a device in strictly ascending number
\* order and one at a time: while a receipt is in flight every receipt of the
\* device with a smaller number is SUBMITTED, and at most one queue entry is
\* SUBMITTING.
C5_InOrderOneAtATime ==
  \A d \in Devices :
    /\ \A i, j \in 1..Len(gwLog[d]) : i < j => gwLog[d][i] < gwLog[d][j]
    /\ wire[d] # NoMsg =>
         \A i \in ReceiptsOf(d) :
           receipts[i].no < wire[d].no => receipts[i].status = "SUBMITTED"
    /\ \A i, j \in 1..Len(queue[d]) :
         (queue[d][i].state = "SUBMITTING" /\ queue[d][j].state = "SUBMITTING") => i = j
    /\ \A i \in 1..Len(queue[d]) :
         queue[d][i].state = "SUBMITTING" => wire[d].rid = queue[d][i].receipt.rid

\* replay has confirmed one queued entry and is sending the next one
C5_Witness ==
  \E d \in Devices : \E i, j \in 1..Len(queue[d]) :
    /\ queue[d][i].state = "SUBMITTED"
    /\ queue[d][j].state = "SUBMITTING"
    /\ queue[d][j].key = queue[d][i].key + 1
    /\ Len(gwLog[d]) >= 2

\* C6: no request is ever sent past a gap (its number is at most one above the
\* last confirmed number), and a device halted by replay reports the fatal
\* ordering error, has nothing in flight, has submitted exactly the receipts
\* before the gap and still holds the offending entry QUEUED.
C6_GapHaltsReplay ==
  \A d \in Devices :
    /\ \A m \in sent[d] : m.no <= counter[d] + 1
    /\ halted[d] =>
         /\ fatalError[d] = "ORDERING"
         /\ wire[d] = NoMsg
         /\ Range(gwLog[d]) = 1..counter[d]
         /\ \A m \in sent[d] : m.no <= counter[d]
         /\ QueuedIdx(d) # {}
         /\ LET e == queue[d][NextQueued(d)]
            IN  ~OrderingOk(d, e.key, e.receipt.prev)

\* replay halted on a gap after the receipts before it were submitted
C6_Witness ==
  \E d \in Devices :
    /\ halted[d]
    /\ counter[d] >= 1
    /\ queue[d][NextQueued(d)].key = counter[d] + 2

C8_QueueAppendOnly ==
  [][\A d \in Devices :
       /\ Len(queue'[d]) >= Len(queue[d])
       /\ \A i \in 1..Len(queue[d]) :
            i <= Len(queue'[d]) =>
              /\ queue'[d][i].key = queue[d][i].key
              /\ queue'[d][i].receipt = queue[d][i].receipt]_vars

\* a queue holding a confirmed entry and a later entry, with an attempt counted
C8_Witness ==
  \E d \in Devices :
    /\ Len(queue[d]) >= 2
    /\ queue[d][1].state = "SUBMITTED"
    /\ queue[d][2].attempts >= 1
    /\ queue[d][2].lastError # "none"

NoFatal == \A d \in Devices : ~halted[d] /\ ~HasFailed(d)

Submitting(d) == {i \in ReceiptsOf(d) : receipts[i].status = "SUBMITTING"}

\* C11: at every moment at most one receipt of a device is SUBMITTING, and it is
\* the one submission in flight for the device, whether it was sent at once or
\* taken from the queue by replay.
C11_OneSubmittingPerDevice ==
  \A d \in Devices :
    /\ Cardinality(Submitting(d)) <= 1
    /\ \A i \in Submitting(d) : wire[d].rid = i
    /\ wire[d] # NoMsg => Submitting(d) = {wire[d].rid}

\* an immediate submission in flight while an entry of the device waits in the
\* queue with the connection up
C11_Witness ==
  \E d \in Devices :
    /\ online
    /\ wire[d].stage = "request"
    /\ EntryOf(d, wire[d].rid) = {}
    /\ QueuedIdx(d) # {}

\* C13: a receipt whose submission outcome is unknown stays SUBMITTING; it is
\* never moved to FAILED, it is sent again only when the gateway's status does
\* not hold it, and when the gateway holds it the only change is to SUBMITTED.
C13_UnknownResolvedByQuery ==
  [][\A d \in Devices :
       /\ wire'[d].stage = "unknown" => receipts'[wire'[d].rid].status = "SUBMITTING"
       /\ wire[d].stage = "unknown" =>
            LET rid == wire[d].rid
                held == wire[d].no \in Range(gwLog[d])
            IN  /\ receipts'[rid].status \in {"SUBMITTING", "SUBMITTED"}
                /\ receipts'[rid].status = "SUBMITTED" => held
                /\ sent'[d] # sent[d] => ~held
                /\ wire'[d].stage = "request" => ~held
                /\ (held /\ wire'[d] # wire[d]) => receipts'[rid].status = "SUBMITTED"]_vars

\* the response to an immediate submission was lost after the gateway recorded
\* the receipt, and the connection is back
C13_Witness ==
  \E d \in Devices :
    /\ online
    /\ wire[d].stage = "unknown"
    /\ wire[d].no \in Range(gwLog[d])
    /\ EntryOf(d, wire[d].rid) = {}
    /\ receipts[wire[d].rid].status = "SUBMITTING"

\* C14: the step that handles a response without a valid counter-signature
\* leaves the receipt FAILED or QUEUED and the device counter unchanged; no step
\* takes a receipt with such a response pending to SUBMITTED.
C14_UnsignedResponseFails ==
  [][\A d \in Devices :
       wire[d].stage = "unsigned" =>
         /\ receipts'[wire[d].rid].status # "SUBMITTED"
         /\ counter'[d] = counter[d]
         /\ wire'[d] = NoMsg => receipts'[wire[d].rid].status \in {"FAILED", "QUEUED"}]_vars

\* a receipt the gateway recorded, FAILED for its unverifiable response, with
\* the counter still behind it
C14_Witness ==
  \E d \in Devices : \E i \in ReceiptsOf(d) :
    /\ receipts[i].status = "FAILED"
    /\ receipts[i].no \in Range(gwLog[d])
    /\ counter[d] < receipts[i].no
    /\ wire[d] = NoMsg

SameDay(i) ==
  {j \in ReceiptsOf(receipts[i].dev) : receipts[j].day = receipts[i].day}

C17_SubmittedImmutable ==
  [][/\ Len(docs') >= Len(docs)
     /\ \A i \in 1..Len(docs) :
          (docs[i].status = "SUBMITTED" \/ Len(docs') > Len(docs)) => docs'[i] = docs[i]]_vars

\* a fiscalised sale, a credit note linked to it, and a blocked attempt to
\* change the total of a fiscalised document
C17_Witness ==
  /\ \E i, j \in 1..Len(docs) :
       /\ docs[i].status = "SUBMITTED" /\ docs[i].type \in Sales
       /\ docs[j].type = "CREDIT_NOTE" /\ docs[j].ref = docs[i].no
  /\ \E u \in Users : outcome[u] = "blocked"

\* C18: no two stored documents share (supplier, external number, type); a
\* submission is turned down as a duplicate only when a stored document has its
\* triple, so the same number under another supplier is stored.
C18_OneDocumentPerTriple ==
  /\ \A i, j \in 1..Len(docs) : i # j => Triple(docs[i]) # Triple(docs[j])
  /\ \A u \in Users :
       outcome[u] = "duplicate" => \E i \in 1..Len(docs) : Triple(docs[i]) = Triple(draft[u])

\* two users raced with one triple: one document was stored, the other
\* submission failed the re-check; the same number is stored under two suppliers
C18_Witness ==
  /\ \E u, v \in Users :
       /\ u # v
       /\ outcome[u] = "stored"
       /\ outcome[v] = "duplicate"
  /\ \E i, j \in 1..Len(docs) :
       /\ docs[i].supplier # docs[j].supplier
       /\ docs[i].extNo = docs[j].extNo
       /\ docs[i].type = docs[j].type

\* C19: every stored or pending correction references the global number of a
\* stored, SUBMITTED sale document and carries an external number different
\* from that document's, whatever its own type; sale documents reference none.
C19_CorrectionLinked ==
  LET linked(x) ==
        IF x.type \in Corrections
        THEN /\ x.ref \in 1..Len(docs)
             /\ docs[x.ref].no = x.ref
             /\ docs[x.ref].type \in Sales
             /\ docs[x.ref].status = "SUBMITTED"
             /\ docs[x.ref].extNo # x.extNo
        ELSE x.ref = 0
  IN  /\ \A i \in 1..Len(docs) : linked(docs[i])
      /\ \A u \in Users : outcome[u] = "entered" => linked(draft[u])

\* a debit note stored against a fiscalised sale under its own number, after a
\* correction that reused the original's number was turned down
C19_Witness ==
  /\ \E i, j \in 1..Len(docs) :
       /\ docs[j].type = "DEBIT_NOTE" /\ docs[j].ref = i
       /\ docs[j].supplier = docs[i].supplier
  /\ \E u \in Users : outcome[u] = "invalid_number"

C22_BuyerNotInCanonical ==
  (/\ signedBefore # NoPayload
   /\ signedBefore.receiptType = payload.receiptType
   /\ signedBefore.receiptTotal = payload.receiptTotal
   /\ signedBefore.receiptTaxes = payload.receiptTaxes)
    => /\ payload.canonical = signedBefore.canonical
       /\ payload.hash = signedBefore.hash

\* a signed tax invoice with two tax buckets whose buyer was replaced by another
C22_Witness ==
  /\ signedBefore # NoPayload
  /\ signedBefore.hash # NoHash /\ payload.hash # NoHash
  /\ signedBefore.buyerData # payload.buyerData
  /\ signedBefore.buyerData # NoBuyer /\ payload.buyerData # NoBuyer
  /\ Len(payload.receiptTaxes) = 2

ClaimedColour(days) ==
  IF days > 60 THEN "green" ELSE IF days >= 30 THEN "yellow" ELSE "red"

C24_ColourByDays ==
  cert.present =>
    /\ \A v \in {"widget", "list", "detail"} :
         certViews[v] # "none" => certViews[v] = ClaimedColour(DaysLeft(cert.remaining))
    /\ \A v, w \in {"widget", "list", "detail"} :
         certViews[v] # "none" /\ certViews[w] # "none" => certViews[v] = certViews[w]

\* C27: the totals of the invoice form mirror the backend rounding. For every
\* item list, the tax rows are the (tax code, tax percent) buckets in the order
\* in which the items first name them, each over the sum of its items' rounded
\* line subtotals; the tax of a bucket is round(net_sum * percent / 100, 2),
\* under half-up or under half-even rounding, and the grand total is the sum
\* over the buckets of net_sum + tax.
RoundHalfUp(num, den) == (2 * num + den) \div (2 * den)
RoundHalfEven(num, den) ==
  IF (2 * num) % (2 * den) = den /\ (num \div den) % 2 = 0
  THEN num \div den
  ELSE (2 * num + den) \div (2 * den)

ItemKey(it) == <<it.tax_code, it.tax_percent>>
RECURSIVE FirstSeenKeys(_, _)
FirstSeenKeys(its, n) ==
  IF n = 0 THEN <<>>
  ELSE IF \E i \in 1..(n - 1) : ItemKey(its[i]) = ItemKey(its[n])
       THEN FirstSeenKeys(its, n - 1)
       ELSE Append(FirstSeenKeys(its, n - 1), ItemKey(its[n]))

RECURSIVE NetSum(_, _, _)
NetSum(its, key, n) ==
  IF n = 0 THEN 0
  ELSE NetSum(its, key, n - 1) + (IF ItemKey(its[n]) = key THEN LineSubtotal(its[n]) ELSE 0)

RECURSIVE SumNetAndTax(_, _)
SumNetAndTax(rows, n) ==
  IF n = 0 THEN 0 ELSE SumNetAndTax(rows, n - 1) + rows[n].net + rows[n].taxAmt

C27_MirrorsBackendRounding ==
  shown.rendered =>
    LET keys == FirstSeenKeys(items, Len(items))
    IN  /\ Len(shown.taxes) = Len(keys)
        /\ \A k \in 1..Len(keys) :
             /\ shown.taxes[k].key = keys[k]
             /\ shown.taxes[k].net = NetSum(items, keys[k], Len(items))
             /\ shown.taxes[k].taxAmt \in
                  {RoundHalfUp(shown.taxes[k].net * keys[k][2], 1000),
                   RoundHalfEven(shown.taxes[k].net * keys[k][2], 1000)}
        /\ shown.grandTotal = SumNetAndTax(shown.taxes, Len(shown.taxes))

\* C28: no invoice with zero items is posted. After any sequence of add-item
\* and remove-item actions, the removal of the last remaining row included,
\* the form holds at least one row, and the payload of a POST holds at least
\* one item.
C28_NeverZeroItems ==
  /\ Len(items) >= 1
  /\ posted # NoPost => Len(posted.items) >= 1

\* a form whose rows were removed down to the default row after an invoice of
\* two items was posted
C28_Witness ==
  /\ posted # NoPost
  /\ Len(posted.items) = 2
  /\ items = <<NewItem(INVOICE_TAXES)>>

\* C26: VAT selection is disabled for a device that is not VAT-registered.
\* After any sequence of device selections, add-item and update-item actions,
\* whenever the selected device is not VAT-registered no row carries a tax
\* percent above 0, and no payload posted for such a device holds a taxed item.
C26_NoVatForNonVatDevice ==
  /\ ~isVatRegistered => \A i \in 1..Len(items) : items[i].tax_percent = 0
  /\ posted # NoPost /\ ~VatFlagOf(posted.device_id) =>
       \A i \in 1..Len(posted.items) : posted.items[i].tax_percent = 0

\* C25: the form posts to /api/invoices/ only when the payment amounts sum to
\* the grand total of the items or more at the moment of submit; otherwise it
\* posts nothing and reports "Payment total must be >= grand total", whatever
\* edits of items and payments came before.
PaymentMessage == "Payment total must be >= grand total"
Short == totalPaid(payments) < grandTotal(items)

C25_PaymentGate ==
  [][handleSubmit =>
       /\ inflight' > inflight => ~Short
       /\ Short => /\ inflight' = inflight
                   /\ posted' = posted
                   /\ result' = [kind |-> "error", error |-> PaymentMessage]]_vars

\* C25, as the form behaves: it posts only when the payments cover the grand
\* total; otherwise it posts nothing and reports an error, which is the payment
\* message exactly when a device is selected, every item has a name and a tax
\* of the list, and a tax invoice has a customer name or TIN.
EarlierChecksPass ==
  /\ deviceId # NoDevice
  /\ \A i \in 1..Len(items) :
       /\ items[i].description \notin {"", " "}
       /\ items[i].tax_id \in {1, 2, 517}
       /\ items[i].tax_percent \in {0, 155}
  /\ issueTaxInvoice => customerName \notin {"", " "} \/ customerTin \notin {"", " "}

C25_PaymentGateAfterChecks ==
  [][handleSubmit =>
       /\ inflight' > inflight => ~Short
       /\ Short => /\ inflight' = inflight
                   /\ posted' = posted
                   /\ result'.kind = "error"
                   /\ result'.error = PaymentMessage <=> EarlierChecksPass]_vars

\* the form reported the payment message when payments of 10.00 met an item of
\* 29.00, and posted nothing
C25_Witness ==
  /\ result = [kind |-> "error", error |-> PaymentMessage]
  /\ totalPaid(payments) = 1000
  /\ grandTotal(items) = 2900
  /\ posted = NoPost

\* C29: at most one POST /api/invoices/ of the form is in flight at any time:
\* while one is pending the form is submitting and its submit control is
\* disabled; and when the request settles, with success or with an error,
\* submitting is false, progress is null and one result, a success or an
\* error, is shown.
C29_OnePostInFlight ==
  /\ [](/\ inflight <= 1
        /\ inflight = 1 => submitting /\ ~SubmitEnabled)
  /\ [][inflight' < inflight =>
          /\ submitting' = FALSE
          /\ progress' = NoProgress
          /\ result'.kind \in {"success", "error"}]_vars

\* a second invoice is in flight after the first one settled with an error
C29_Witness ==
  /\ inflight = 1
  /\ submitting
  /\ result = NoResult
  /\ posted.customer_tin = "1234567890"
  /\ posted.customer_name = ""

\* C30: when the selected device or the token changes, the dashboard closes
\* its previous WebSocket and opens one for the new selection. At most one
\* dashboard socket is open at a time and it is the one of the selected device;
\* a step that creates a socket leaves every earlier one closed and the new one
\* open for the selection and the token; and a message that changes the
\* metrics, the receipt progress or the activity feed is an event of the
\* selected device, or of any device when none is selected.
OpenSockets == {k \in 1..Len(sockets) : sockets[k].open}

\* a step that creates a socket closes the earlier ones
SocketSwitch ==
  Len(sockets') > Len(sockets) =>
    /\ \A k \in 1..Len(sockets) : ~sockets'[k].open
    /\ sockets'[Len(sockets')] = createDashboardWebSocket(selectedDevice', token')

\* a message that changes what the dashboard shows is one of the selection
MessagesOfSelection ==
  \A k \in 1..MaxSockets, type \in DashEventTypes, d \in DashDevices :
    (/\ onMessage(k, [device |-> d, type |-> type])
     /\ <<metrics, receiptProgress, activity>>' # <<metrics, receiptProgress, activity>>)
      => selectedDevice \in {NoDevice, d}

C30_OneSocketForSelection ==
  /\ [](Cardinality(OpenSockets) <= 1)
  /\ [](\A k \in OpenSockets : sockets[k].deviceId = selectedDevice)
  /\ [][SocketSwitch]_vars
  /\ [][MessagesOfSelection]_vars

\* device 1 was selected, then device 2: the socket of device 1 is closed, the
\* one of device 2 is open, and the feed holds an event of each
C30_Witness ==
  /\ Len(sockets) = 3
  /\ sockets[2].deviceId = 1 /\ ~sockets[2].open
  /\ sockets[3].deviceId = 2 /\ sockets[3].open
  /\ Len(activity) = 2
  /\ activity[1].device = 2 /\ activity[2].device = 1
  /\ metrics = [device |-> 2, via |-> "socket"]

====
